---- MODULE Spec2Model ----
(***************************************************************************)
(* State-machine model of the molecular viewer session                     *)
(* (app/composables/useMoleculeViewer.ts) as it is driven by app.vue:      *)
(* library polling, rendering-surface creation, preset loads, PDB search   *)
(* with asynchronous download callbacks, atom clicks and the distance      *)
(* measurement state machine, comparison mode and teardown.                *)
(*                                                                         *)
(* Strings that the code transforms (search input, PDB ids) are sequences  *)
(* of one-character strings.  A nullable value is a sequence of length 0   *)
(* (null) or 1 (the value).  Coordinates are in 1/1000 Angstrom.           *)
(***************************************************************************)
EXTENDS Integers, Sequences, FiniteSets, TLC

VARIABLES
    phase,                \* "created" | "mounted" | "unmounted" (component lifecycle of app.vue)
    libLoaded,            \* window.$3Dmol is defined
    comparisonMode,       \* app.vue comparisonMode ref (the viewer container is rendered iff it is false)
    pollTimers,           \* pending setTimeout(waitForLibraryAndInit, 100) timers
    surfaces,             \* every rendering surface createViewer has returned, in creation order
    pending,              \* $3Dmol.download requests whose completion callback has not run
    viewer,               \* handle (index into surfaces) held by the session, 0 = null
    isLoading,
    currentMolecule,
    customPdbId,
    searchError,
    selectedAtom,
    measureAtom1,
    measurementDistance,
    measureMode,
    atomCount,
    currentStyle,
    currentColorScheme,
    currentBackground,
    isSpinning,
    showLabels,
    showHelpModal,        \* app.vue showHelpModal ref
    comparison,           \* ComparisonMode.vue and its two SingleViewer instances
    calls,                \* the library calls made by the last step, in order
    lastOp                \* the last operation run: its name, argument and result

vars == <<phase, libLoaded, comparisonMode, pollTimers, surfaces, pending, viewer,
          isLoading, currentMolecule, customPdbId, searchError, selectedAtom,
          measureAtom1, measurementDistance, measureMode, atomCount,
          currentStyle, currentColorScheme, currentBackground, isSpinning,
          showLabels, showHelpModal, comparison, calls, lastOp>>

\* ------------------------------------------------------------------ bounds

MaxSurfaces == 2
MaxPending == 1
MaxTimers == 1
MaxClickAtoms == 2
MaxInputLen == 4
MaxComparisonSteps == 7

\* ------------------------------------------------------------ nullable values

Null == << >>
Some(v) == << v >>
IsNull(o) == o = << >>
Val(o) == o[1]

\* ------------------------------------------------------------------ strings

Str4(a, b, c, d) == << a, b, c, d >>

LowerCase == << "a", "b", "c", "d", "e", "f", "g", "h", "i", "j", "k", "l", "m",
               "n", "o", "p", "q", "r", "s", "t", "u", "v", "w", "x", "y", "z" >>
UpperCase == << "A", "B", "C", "D", "E", "F", "G", "H", "I", "J", "K", "L", "M",
               "N", "O", "P", "Q", "R", "S", "T", "U", "V", "W", "X", "Y", "Z" >>
Digits == { "0", "1", "2", "3", "4", "5", "6", "7", "8", "9" }
WhiteSpace == { " " }

RECURSIVE IndexOf(_, _, _)
IndexOf(tbl, c, i) ==
    IF i > Len(tbl) THEN 0
    ELSE IF tbl[i] = c THEN i
    ELSE IndexOf(tbl, c, i + 1)

\* String.prototype.toUpperCase, one character
UpperChar(c) ==
    LET i == IndexOf(LowerCase, c, 1) IN IF i = 0 THEN c ELSE UpperCase[i]
\* toUpperCase that leaves the string as it is
toUpperCase_Unchanged(s) == s

toUpperCase(s) == [i \in 1..Len(s) |-> UpperChar(s[i])]

\* String.prototype.toLowerCase
LowerChar(c) ==
    LET i == IndexOf(UpperCase, c, 1) IN IF i = 0 THEN c ELSE LowerCase[i]

toLowerCase(s) == [i \in 1..Len(s) |-> LowerChar(s[i])]

\* parseInt of a one-digit string
DigitChars == << "0", "1", "2", "3", "4", "5", "6", "7", "8", "9" >>

parseInt(s) == IndexOf(DigitChars, s[1], 1) - 1

RECURSIVE TrimStart(_)
TrimStart(s) ==
    IF s # << >> /\ Head(s) \in WhiteSpace THEN TrimStart(Tail(s)) ELSE s

RECURSIVE TrimEnd(_)
TrimEnd(s) ==
    IF s # << >> /\ s[Len(s)] \in WhiteSpace
    THEN TrimEnd(SubSeq(s, 1, Len(s) - 1))
    ELSE s

\* String.prototype.trim
trim(s) == TrimEnd(TrimStart(s))

\* one character against the class [A-Z0-9] under the i flag
MatchesClass(c) ==
    \/ c \in Digits
    \/ IndexOf(UpperCase, c, 1) # 0
    \/ IndexOf(LowerCase, c, 1) # 0
\* the format test without the character class: any four characters
MatchesPdbFormat_AnyFour(s) ==
    Len(s) = 4

\* /^[A-Z0-9]{4}$/i.test(s)
MatchesPdbFormat(s) ==
    /\ Len(s) = 4
    /\ \A i \in 1..Len(s) : MatchesClass(s[i])

\* ------------------------------------------------------------------ catalog

INLINE == << "I", "N", "L", "I", "N", "E" >>

MOLECULES ==
    << [id |-> "caffeine", pdbId |-> Str4("1", "U", "A", "O")],
       [id |-> "aspirin",  pdbId |-> Str4("2", "O", "Y", "E")],
       [id |-> "glucose",  pdbId |-> Str4("3", "W", "7", "B")],
       [id |-> "ethanol",  pdbId |-> INLINE] >>

MoleculeIds == { MOLECULES[i].id : i \in 1..Len(MOLECULES) }

defaultMolecule == "caffeine"

\* MOLECULES.find(m => m.id === id): the entry, or null
getMoleculeById(id) ==
    IF \E i \in 1..Len(MOLECULES) : MOLECULES[i].id = id
    THEN Some(MOLECULES[CHOOSE i \in 1..Len(MOLECULES) : MOLECULES[i].id = id])
    ELSE Null

\* ATOM_COUNTS[pdbId] || 0
getAtomCount(pdbId) ==
    CASE pdbId = Str4("1", "U", "A", "O") -> 24
      [] pdbId = Str4("2", "O", "Y", "E") -> 21
      [] pdbId = Str4("3", "W", "7", "B") -> 24
      [] pdbId = INLINE -> 9
      [] OTHER -> 0

\* VIEWER_CONFIG
defaultStyle == "stick"
defaultColorScheme == "Jmol"
defaultBackground == "white"
backgroundColor == "white"
spinAxis == "y"

\* the ids of VISUALIZATION_STYLES and COLOR_SCHEMES
StyleIds == { "stick", "sphere", "line", "cross" }
ColorSchemeIds == { "Jmol", "carbon", "spectrum", "chain" }

BACKGROUNDS ==
    << [id |-> "white", color |-> "white"],
       [id |-> "black", color |-> "black"],
       [id |-> "gray",  color |-> "#1a1a2e"] >>

\* BACKGROUNDS.find(b => b.id === id): the entry, or null
getBackgroundById(id) ==
    IF \E i \in 1..Len(BACKGROUNDS) : BACKGROUNDS[i].id = id
    THEN Some(BACKGROUNDS[CHOOSE i \in 1..Len(BACKGROUNDS) : BACKGROUNDS[i].id = id])
    ELSE Null

\* schemeMap[schemeId] || 'Jmol'
buildColorStyle(schemeId) ==
    CASE schemeId = "Jmol" -> "Jmol"
      [] schemeId = "carbon" -> "greenCarbon"
      [] schemeId = "spectrum" -> "spectrum"
      [] schemeId = "chain" -> "chain"
      [] OTHER -> "Jmol"

\* -------------------------------------------------------------------- atoms

Atom(serial, elem, x, y, z) ==
    [serial |-> serial, elem |-> elem, x |-> x, y |-> y, z |-> z]

\* the ATOM records of ETHANOL_PDB
ETHANOL_PDB ==
    << Atom(1, "C", -757, 429, 0),
       Atom(2, "C", 757, -429, 0),
       Atom(3, "O", 1584, 720, 0),
       Atom(4, "H", -1164, 437, 1014),
       Atom(5, "H", -537, 1450, -333),
       Atom(6, "H", -1497, 3, -681),
       Atom(7, "H", 537, -1450, 333),
       Atom(8, "H", 1164, -437, -1014),
       Atom(9, "H", 2484, 400, 0) >>

\* the size of the large structure the database knows (4HHB)
LargeStructureAtoms == 102

\* What the remote structure database returns for an identifier: the content
\* is the environment's; an identifier it does not know yields no atoms.
RemoteStructure(pdbId) ==
    CASE pdbId = Str4("1", "U", "A", "O") ->
            << Atom(1, "N", 0, 0, 0), Atom(2, "C", 3000, 4000, 0), Atom(3, "H", 1000, 0, 0) >>
      [] pdbId = Str4("2", "O", "Y", "E") ->
            << Atom(1, "C", 0, 0, 0), Atom(2, "O", 1000, 2000, 2000), Atom(3, "H", 0, 1000, 0) >>
      [] pdbId = Str4("3", "W", "7", "B") ->
            << Atom(1, "O", 1000, 1000, 1000), Atom(2, "C", 2000, 1000, 1000), Atom(3, "H", 0, 0, 1000) >>
      [] pdbId = Str4("1", "C", "R", "N") ->
            << Atom(1, "N", 0, 0, 0), Atom(2, "C", 1000, 1000, 0), Atom(3, "S", 0, 0, 2000) >>
      [] pdbId = Str4("4", "H", "H", "B") ->
            [i \in 1..LargeStructureAtoms |->
                Atom(i, IF i % 6 = 0 THEN "H" ELSE "C", 100 * i, 0, 0)]
      [] OTHER -> << >>

\* ----------------------------------------------------------------- distance

RECURSIVE SqrtSearch(_, _, _)
SqrtSearch(n, lo, hi) ==
    IF lo >= hi THEN lo
    ELSE LET mid == (lo + hi + 1) \div 2
         IN IF mid * mid <= n THEN SqrtSearch(n, mid, hi) ELSE SqrtSearch(n, lo, mid - 1)

\* Math.sqrt(n) for an integer n >= 0, exactly: the integer part of the root
\* and what is left of n under it (rem = 0 iff the root is that integer)
Sqrt(n) ==
    LET r == SqrtSearch(n, 0, IF n > 46340 THEN 46340 ELSE n)
    IN [root |-> r, rem |-> n - r * r]

\* calculateDistance that leaves out the z coordinate
calculateDistance_Planar(a, b) ==
    LET dx == b.x - a.x
        dy == b.y - a.y
    IN Sqrt(dx * dx + dy * dy)

calculateDistance(a, b) ==
    LET dx == b.x - a.x
        dy == b.y - a.y
        dz == b.z - a.z
    IN Sqrt(dx * dx + dy * dy + dz * dz)

\* ------------------------------------------------- the session as one value

\* A handler is an operator from the state before it to the state after it;
\* s.ret is what the handler returns and s.calls the library calls it made.
State ==
    [phase |-> phase, libLoaded |-> libLoaded, comparisonMode |-> comparisonMode,
     pollTimers |-> pollTimers, surfaces |-> surfaces, pending |-> pending,
     viewer |-> viewer, isLoading |-> isLoading, currentMolecule |-> currentMolecule,
     customPdbId |-> customPdbId, searchError |-> searchError,
     selectedAtom |-> selectedAtom, measureAtom1 |-> measureAtom1,
     measurementDistance |-> measurementDistance, measureMode |-> measureMode,
     atomCount |-> atomCount, currentStyle |-> currentStyle,
     currentColorScheme |-> currentColorScheme,
     currentBackground |-> currentBackground, isSpinning |-> isSpinning,
     showLabels |-> showLabels, showHelpModal |-> showHelpModal,
     calls |-> << >>, ret |-> "void"]

\* viewerContainer.value: the container element is in the DOM
viewerContainer(s) == s.phase = "mounted" /\ ~s.comparisonMode

\* ------------------------------------------------- the rendering surface

NewSurface ==
    [released |-> FALSE, models |-> << >>, shapes |-> << >>, labels |-> << >>,
     style |-> Null, background |-> backgroundColor, spin |-> "false"]

Called(s, h, fn) == [s EXCEPT !.calls = Append(@, << h, fn >>)]

\* What is in a surface is tracked while the session holds its handle: once
\* the handle is overwritten or dropped nothing reads the surface again.
Untracked(surf) == [NewSurface EXCEPT !.released = surf.released]

\* $3Dmol.createViewer(container, config), assigned to viewer
createViewer(s) ==
    LET h == Len(s.surfaces) + 1
        held == [i \in 1..Len(s.surfaces) |->
                    IF i = s.viewer THEN Untracked(s.surfaces[i]) ELSE s.surfaces[i]]
    IN Called([s EXCEPT !.surfaces = Append(held, NewSurface), !.viewer = h], h, "createViewer")

\* viewer.clear(): removes the models, shapes and labels of the surface
vClear(s) ==
    Called([s EXCEPT !.surfaces[s.viewer].models = << >>,
                     !.surfaces[s.viewer].shapes = << >>,
                     !.surfaces[s.viewer].labels = << >>], s.viewer, "clear")

vRemoveAllLabels(s) ==
    Called([s EXCEPT !.surfaces[s.viewer].labels = << >>], s.viewer, "removeAllLabels")


vRemoveAllShapes(s) ==
    Called([s EXCEPT !.surfaces[s.viewer].shapes = << >>], s.viewer, "removeAllShapes")

vAddCylinder(s, from, to) ==
    Called([s EXCEPT !.surfaces[s.viewer].shapes =
                        Append(@, [start |-> from, end |-> to])],
           s.viewer, "addCylinder")

vAddModel(s, atoms) ==
    Called([s EXCEPT !.surfaces[s.viewer].models =
                        Append(@, [atoms |-> atoms, clickable |-> FALSE])],
           s.viewer, "addModel")

\* viewer.setClickable({}, true, callback): every atom now in the surface
vSetClickable(s) ==
    Called([s EXCEPT !.surfaces[s.viewer].models =
                        [i \in 1..Len(@) |-> [@[i] EXCEPT !.clickable = TRUE]]],
           s.viewer, "setClickable")

\* viewer.setStyle({}, { [style]: { colorscheme } })
vSetStyle(s, styleObj) ==
    Called([s EXCEPT !.surfaces[s.viewer].style = Some(styleObj)], s.viewer, "setStyle")

vSetBackgroundColor(s, color) ==
    Called([s EXCEPT !.surfaces[s.viewer].background = color], s.viewer, "setBackgroundColor")

\* viewer.spin(axis | false, speed)
vSpin(s, axis) ==
    Called([s EXCEPT !.surfaces[s.viewer].spin = axis], s.viewer, "spin")

vPngURI(s) == Called(s, s.viewer, "pngURI")
vRender(s) == Called(s, s.viewer, "render")
vZoomTo(s) == Called(s, s.viewer, "zoomTo")
vZoom(s) == Called(s, s.viewer, "zoom")

RECURSIVE AtomsOf(_)
AtomsOf(models) ==
    IF models = << >> THEN << >> ELSE Head(models).atoms \o AtomsOf(Tail(models))

\* viewer.selectedAtoms({})
selectedAtoms(s) == AtomsOf(s.surfaces[s.viewer].models)

Position(a) == [x |-> a.x, y |-> a.y, z |-> a.z]

\* ------------------------------------------------------------------ labels

\* .slice(0, 50)
MaxLabels == 50

\* Array.prototype.filter(atom => atom.elem !== 'H')
NotHydrogen(atom) == atom.elem # "H"

FilterHeavy(atoms) == SelectSeq(atoms, NotHydrogen)

\* Array.prototype.slice(0, n)
Slice(seq, n) == IF Len(seq) <= n THEN seq ELSE SubSeq(seq, 1, n)

\* heavyAtoms.forEach(atom => viewer.addLabel(atom.elem, { position }))
\* (the addLabel calls of the loop, in the order of heavyAtoms)
AddLabelEach(s, heavyAtoms) ==
    LET requests == [i \in 1..Len(heavyAtoms) |->
                        [text |-> heavyAtoms[i].elem, position |-> Position(heavyAtoms[i])]]
    IN [s EXCEPT !.surfaces[s.viewer].labels = @ \o requests,
                 !.calls = @ \o [i \in 1..Len(requests) |->
                                    << s.viewer, "addLabel", requests[i] >>]]
\* addLabels without the slice
addLabels_NoLimit(s) ==
    IF s.viewer = 0 THEN s
    ELSE LET s1 == Called(s, s.viewer, "selectedAtoms")
             heavyAtoms == FilterHeavy(selectedAtoms(s1))
         IN vRender(AddLabelEach(s1, heavyAtoms))

addLabels(s) ==
    IF s.viewer = 0 THEN s
    ELSE LET s1 == Called(s, s.viewer, "selectedAtoms")
             heavyAtoms == Slice(FilterHeavy(selectedAtoms(s1)), MaxLabels)
         IN vRender(AddLabelEach(s1, heavyAtoms))

removeLabels(s) ==
    IF s.viewer = 0 THEN s ELSE vRender(vRemoveAllLabels(s))

toggleLabels(s) ==
    LET s1 == [s EXCEPT !.showLabels = ~s.showLabels]
    IN IF s1.showLabels THEN addLabels(s1) ELSE removeLabels(s1)

\* ------------------------------------------------------------- measurement

\* drawMeasurementLine that keeps the shapes already in the surface
drawMeasurementLine_KeepsShapes(s, atom1, atom2) ==
    IF s.viewer = 0 THEN s
    ELSE vRender(vAddCylinder(s, Position(atom1), Position(atom2)))

drawMeasurementLine(s, atom1, atom2) ==
    IF s.viewer = 0 THEN s
    ELSE vRender(vAddCylinder(vRemoveAllShapes(s), Position(atom1), Position(atom2)))

\* handleMeasurementClick that stays in measure mode after the second atom
handleMeasurementClick_StaysArmed(s, atom) ==
    IF IsNull(s.measureAtom1)
    THEN [s EXCEPT !.measureAtom1 = Some(atom), !.selectedAtom = Some(atom)]
    ELSE LET s1 == [s EXCEPT !.measurementDistance =
                                Some(calculateDistance(Val(s.measureAtom1), atom))]
             s2 == drawMeasurementLine(s1, Val(s1.measureAtom1), atom)
         IN [s2 EXCEPT !.measureAtom1 = Null]

handleMeasurementClick(s, atom) ==
    IF IsNull(s.measureAtom1)
    THEN [s EXCEPT !.measureAtom1 = Some(atom), !.selectedAtom = Some(atom)]
    ELSE LET s1 == [s EXCEPT !.measurementDistance =
                                Some(calculateDistance(Val(s.measureAtom1), atom))]
             s2 == drawMeasurementLine(s1, Val(s1.measureAtom1), atom)
         IN [s2 EXCEPT !.measureAtom1 = Null, !.measureMode = FALSE]

\* the click callback without the test of the mode
onAtomClicked_AlwaysMeasures(s, atom) ==
    handleMeasurementClick(s, atom)

\* the callback setupAtomClicking registers
onAtomClicked(s, atom) ==
    IF s.measureMode
    THEN handleMeasurementClick(s, atom)
    ELSE [s EXCEPT !.selectedAtom = Some(atom)]
\* clearMeasurement that also leaves measure mode
clearMeasurement_LeavesMode(s) ==
    LET s1 == [s EXCEPT !.measurementDistance = Null, !.measureAtom1 = Null,
                        !.measureMode = FALSE]
    IN IF s1.viewer # 0 THEN vRender(vRemoveAllShapes(s1)) ELSE s1

clearMeasurement(s) ==
    LET s1 == [s EXCEPT !.measurementDistance = Null, !.measureAtom1 = Null]
    IN IF s1.viewer # 0 THEN vRender(vRemoveAllShapes(s1)) ELSE s1
\* toggleMeasureMode that drops the distance of the last measurement
toggleMeasureMode_ClearsDistance(s) ==
    LET s1 == [s EXCEPT !.measureMode = ~s.measureMode, !.measurementDistance = Null]
    IN IF ~s1.measureMode THEN [s1 EXCEPT !.measureAtom1 = Null] ELSE s1

\* toggleMeasureMode without the reset of the first atom when turning off
toggleMeasureMode_KeepsFirstAtom(s) ==
    [s EXCEPT !.measureMode = ~s.measureMode]

toggleMeasureMode(s) ==
    LET s1 == [s EXCEPT !.measureMode = ~s.measureMode]
    IN IF ~s1.measureMode THEN [s1 EXCEPT !.measureAtom1 = Null] ELSE s1

\* computed(() => measureAtom1.value !== null)
hasFirstAtom(s) == ~IsNull(s.measureAtom1)

\* the MeasurementCard template: which of its three cards is rendered for the
\* props app.vue passes (distance, measureMode, hasFirstAtom), "none" when
\* no v-if branch holds
MeasurementCard(s) ==
    IF s.measureMode /\ ~hasFirstAtom(s) /\ IsNull(s.measurementDistance)
    THEN "Click on first atom"
    ELSE IF s.measureMode /\ hasFirstAtom(s) /\ IsNull(s.measurementDistance)
    THEN "Click on second atom"
    ELSE IF ~IsNull(s.measurementDistance)
    THEN "Distance Measurement"
    ELSE "none"

\* ---------------------------------------------------------------- loading

applyVisualizationSettings(s) ==
    IF s.viewer = 0 THEN s
    ELSE vRender(vSetStyle(s, [style |-> s.currentStyle,
                               colorscheme |-> buildColorStyle(s.currentColorScheme)]))

setStyle(s, styleId) ==
    applyVisualizationSettings([s EXCEPT !.currentStyle = styleId])

setColorScheme(s, schemeId) ==
    applyVisualizationSettings([s EXCEPT !.currentColorScheme = schemeId])

setBackground(s, bgId) ==
    IF s.viewer = 0 THEN s
    ELSE LET s1 == [s EXCEPT !.currentBackground = bgId]
             bg == getBackgroundById(bgId)
         IN IF ~IsNull(bg) THEN vRender(vSetBackgroundColor(s1, Val(bg).color)) ELSE s1

toggleSpin(s) ==
    IF s.viewer = 0 THEN s
    ELSE LET s1 == [s EXCEPT !.isSpinning = ~s.isSpinning]
         IN vSpin(s1, IF s1.isSpinning THEN spinAxis ELSE "false")

resetView(s) ==
    IF s.viewer = 0 THEN s
    ELSE LET s1 == IF s.isSpinning THEN toggleSpin(s) ELSE s
         IN vRender(vZoom(vZoomTo(s1)))

setupAtomClicking(s) ==
    IF s.viewer = 0 THEN s ELSE vSetClickable(s)

finalizeLoad(s, pdbId) ==
    IF s.viewer = 0 THEN s
    ELSE LET s1 == setupAtomClicking(applyVisualizationSettings(s))
             s2 == [s1 EXCEPT !.atomCount = getAtomCount(pdbId)]
             s3 == vRender(vZoom(vZoomTo(s2)))
         IN IF s3.showLabels THEN addLabels(s3) ELSE s3

loadInlineMolecule(s, pdbData, pdbId) ==
    IF s.viewer = 0 THEN s
    ELSE [finalizeLoad(vAddModel(s, pdbData), pdbId) EXCEPT !.isLoading = FALSE]

\* window.$3Dmol.download(query, viewer, {}, callback): the request is in
\* flight until the library has added the model to that surface and run the
\* callback; before is what the session showed when the operation that
\* issued the request was called (kept for the claims, never read by a handler)
download(s, kind, pdbId, before) ==
    Called([s EXCEPT !.pending = Append(@, [kind |-> kind, pdbId |-> pdbId,
                                            surf |-> s.viewer, before |-> before])],
           s.viewer, "download")

\* the structure state of the session: selector, custom id, displayed models
Shown(s) ==
    [currentMolecule |-> s.currentMolecule,
     customPdbId |-> s.customPdbId,
     models |-> IF s.viewer = 0 THEN << >> ELSE s.surfaces[s.viewer].models]

loadFromPDB(s, pdbId) ==
    IF s.viewer = 0 THEN s ELSE download(s, "preset", pdbId, Null)

\* the completion callback loadFromPDB passes to download
onPresetDownloaded(s, pdbId) ==
    [finalizeLoad(s, pdbId) EXCEPT !.isLoading = FALSE]
\* loadMolecule that downloads every entry
loadMolecule_AlwaysRemote(s, moleculeId) ==
    IF s.viewer = 0 THEN s
    ELSE LET molecule == getMoleculeById(moleculeId)
         IN IF IsNull(molecule) THEN s
            ELSE LET s1 == [s EXCEPT !.isLoading = TRUE,
                                     !.currentMolecule = moleculeId,
                                     !.customPdbId = Null,
                                     !.searchError = Null]
                     s2 == vRemoveAllShapes(vRemoveAllLabels(vClear(s1)))
                     s3 == clearMeasurement([s2 EXCEPT !.selectedAtom = Null])
                 IN loadFromPDB(s3, Val(molecule).pdbId)

\* loadMolecule that leaves the labels and the selection
loadMolecule_KeepsLabels(s, moleculeId) ==
    IF s.viewer = 0 THEN s
    ELSE LET molecule == getMoleculeById(moleculeId)
         IN IF IsNull(molecule) THEN s
            ELSE LET s1 == [s EXCEPT !.isLoading = TRUE,
                                     !.currentMolecule = moleculeId,
                                     !.customPdbId = Null,
                                     !.searchError = Null]
                     s2 == vRemoveAllShapes(
                               Called([s1 EXCEPT !.surfaces[s.viewer].models = << >>,
                                                 !.surfaces[s.viewer].shapes = << >>],
                                      s.viewer, "clear"))
                     s3 == clearMeasurement(s2)
                 IN IF moleculeId = "ethanol"
                    THEN loadInlineMolecule(s3, ETHANOL_PDB, Val(molecule).pdbId)
                    ELSE loadFromPDB(s3, Val(molecule).pdbId)

\* loadMolecule without the call of clearMeasurement
loadMolecule_KeepsMeasurement(s, moleculeId) ==
    IF s.viewer = 0 THEN s
    ELSE LET molecule == getMoleculeById(moleculeId)
         IN IF IsNull(molecule) THEN s
            ELSE LET s1 == [s EXCEPT !.isLoading = TRUE,
                                     !.currentMolecule = moleculeId,
                                     !.customPdbId = Null,
                                     !.searchError = Null]
                     s2 == vRemoveAllShapes(vRemoveAllLabels(vClear(s1)))
                     s3 == [s2 EXCEPT !.selectedAtom = Null]
                 IN IF moleculeId = "ethanol"
                    THEN loadInlineMolecule(s3, ETHANOL_PDB, Val(molecule).pdbId)
                    ELSE loadFromPDB(s3, Val(molecule).pdbId)

loadMolecule(s, moleculeId) ==
    IF s.viewer = 0 THEN s
    ELSE LET molecule == getMoleculeById(moleculeId)
         IN IF IsNull(molecule) THEN s
            ELSE LET s1 == [s EXCEPT !.isLoading = TRUE,
                                     !.currentMolecule = moleculeId,
                                     !.customPdbId = Null,
                                     !.searchError = Null]
                     s2 == vRemoveAllShapes(vRemoveAllLabels(vClear(s1)))
                     s3 == clearMeasurement([s2 EXCEPT !.selectedAtom = Null])
                 IN IF moleculeId = "ethanol"
                    THEN loadInlineMolecule(s3, ETHANOL_PDB, Val(molecule).pdbId)
                    ELSE loadFromPDB(s3, Val(molecule).pdbId)

\* ----------------------------------------------------------------- search

ErrEnterId == [text |-> "Please enter a PDB ID", id |-> << >>]
ErrFormat == [text |-> "PDB ID must be 4 characters (e.g., 1CRN, 4HHB)", id |-> << >>]
ErrNotFound(cleanId) == [text |-> "PDB ID not found", id |-> cleanId]

\* searchPDB that leaves the preset selector as it was
searchPDB_KeepsPreset(s, pdbId) ==
    IF s.viewer = 0 \/ trim(pdbId) = << >>
    THEN [s EXCEPT !.searchError = Some(ErrEnterId), !.ret = "false"]
    ELSE LET cleanId == toUpperCase(trim(pdbId))
         IN IF ~MatchesPdbFormat(cleanId)
            THEN [s EXCEPT !.searchError = Some(ErrFormat), !.ret = "false"]
            ELSE LET s1 == [s EXCEPT !.isLoading = TRUE,
                                     !.searchError = Null,
                                     !.customPdbId = Some(cleanId)]
                     s2 == vRemoveAllShapes(vRemoveAllLabels(vClear(s1)))
                     s3 == clearMeasurement([s2 EXCEPT !.selectedAtom = Null])
                 IN [download(s3, "search", cleanId, Some(Shown(s))) EXCEPT !.ret = "pending"]

\* searchPDB up to the promise it returns: ret is "false" when it returns
\* false at once, "pending" when the promise waits for the download callback
searchPDB(s, pdbId) ==
    IF s.viewer = 0 \/ trim(pdbId) = << >>
    THEN [s EXCEPT !.searchError = Some(ErrEnterId), !.ret = "false"]
    ELSE LET cleanId == toUpperCase(trim(pdbId))
         IN IF ~MatchesPdbFormat(cleanId)
            THEN [s EXCEPT !.searchError = Some(ErrFormat), !.ret = "false"]
            ELSE LET s1 == [s EXCEPT !.isLoading = TRUE,
                                     !.searchError = Null,
                                     !.customPdbId = Some(cleanId),
                                     !.currentMolecule = ""]
                     s2 == vRemoveAllShapes(vRemoveAllLabels(vClear(s1)))
                     s3 == clearMeasurement([s2 EXCEPT !.selectedAtom = Null])
                 IN [download(s3, "search", cleanId, Some(Shown(s))) EXCEPT !.ret = "pending"]

\* the completion callback searchPDB passes to download; ret is what the
\* promise resolves to
onSearchDownloaded(s, cleanId) ==
    LET found == s.viewer = 0 \/ Len(selectedAtoms(s)) # 0
    IN IF ~found
       THEN [Called(s, s.viewer, "selectedAtoms")
                EXCEPT !.searchError = Some(ErrNotFound(cleanId)),
                       !.customPdbId = Null,
                       !.isLoading = FALSE,
                       !.ret = "false"]
       ELSE LET s1 == IF s.viewer = 0 THEN s
                      ELSE [Called(s, s.viewer, "selectedAtoms")
                               EXCEPT !.atomCount = Len(selectedAtoms(s))]
                s2 == setupAtomClicking(applyVisualizationSettings(s1))
                s3 == IF s2.viewer # 0 THEN vRender(vZoom(vZoomTo(s2))) ELSE s2
                s4 == IF s3.showLabels THEN addLabels(s3) ELSE s3
            IN [s4 EXCEPT !.isLoading = FALSE, !.ret = "true"]

\* ------------------------------------------------- screenshot and keys

\* takeScreenshot: the image of the surface, saved through a link whose
\* download attribute is <name>-molecule.png
takeScreenshot(s) ==
    IF s.viewer = 0 THEN s
    ELSE LET filename ==
                 IF ~IsNull(s.customPdbId)
                 THEN [customPdbId |-> toLowerCase(Val(s.customPdbId)),
                       suffix |-> "-molecule.png"]
                 ELSE [moleculeId |-> s.currentMolecule, suffix |-> "-molecule.png"]
         IN [vPngURI(s) EXCEPT !.calls = Append(@, << 0, "link.click", filename >>)]

\* app.vue: moleculeIds
moleculeIds == << "caffeine", "aspirin", "glucose", "ethanol" >>

\* app.vue: onLoadMolecule (index counts from 0)
onLoadMolecule(s, index) ==
    IF index + 1 \in 1..Len(moleculeIds)
    THEN loadMolecule(s, moleculeIds[index + 1])
    ELSE s

\* app.vue: onToggleHelp
onToggleHelp(s) == [s EXCEPT !.showHelpModal = ~s.showHelpModal]

\* the handler the dispatcher invoked, kept in ret (handleKeydown itself
\* returns nothing)
Invoked(s, handler) == [s EXCEPT !.ret = handler]

TextEntryTargets == { "input", "textarea" }

\* handleKeydown without the case folding of the key
handleKeydown_CaseSensitive(s, key, target) ==
    IF target \in TextEntryTargets THEN Invoked(s, "none")
    ELSE CASE key = << "r" >> -> Invoked(resetView(s), "onReset")
           [] key = << "s" >> -> Invoked(toggleSpin(s), "onToggleSpin")
           [] key \in { << "1" >>, << "2" >>, << "3" >>, << "4" >> } ->
                  Invoked(onLoadMolecule(s, parseInt(key) - 1), "onLoadMolecule")
           [] key = << " " >> -> Invoked(takeScreenshot(s), "onScreenshot")
           [] key = << "m" >> -> Invoked(toggleMeasureMode(s), "onToggleMeasure")
           [] key = << "l" >> -> Invoked(toggleLabels(s), "onToggleLabels")
           [] key = << "?" >> -> Invoked(onToggleHelp(s), "onToggleHelp")
           [] OTHER -> Invoked(s, "none")

\* handleKeydown, with the handlers app.vue passes to useKeyboardShortcuts
handleKeydown(s, eventKey, target) ==
    IF target \in TextEntryTargets THEN Invoked(s, "none")
    ELSE LET key == toLowerCase(eventKey)
         IN CASE key = << "r" >> -> Invoked(resetView(s), "onReset")
              [] key = << "s" >> -> Invoked(toggleSpin(s), "onToggleSpin")
              [] key \in { << "1" >>, << "2" >>, << "3" >>, << "4" >> } ->
                     Invoked(onLoadMolecule(s, parseInt(key) - 1), "onLoadMolecule")
              [] key = << " " >> -> Invoked(takeScreenshot(s), "onScreenshot")
              [] key = << "m" >> -> Invoked(toggleMeasureMode(s), "onToggleMeasure")
              [] key = << "l" >> -> Invoked(toggleLabels(s), "onToggleLabels")
              [] key = << "?" >> -> Invoked(onToggleHelp(s), "onToggleHelp")
              [] OTHER -> Invoked(s, "none")

\* ----------------------------------------------------- lifecycle handlers

\* initViewer that does not look at the container
initViewer_AnyContainer(s) ==
    IF ~s.libLoaded THEN s
    ELSE loadMolecule(createViewer(s), defaultMolecule)

initViewer(s) ==
    IF ~viewerContainer(s) \/ ~s.libLoaded THEN s
    ELSE loadMolecule(createViewer(s), defaultMolecule)

\* waitForLibraryAndInit that gives up when the library is not there
waitForLibraryAndInit_NoRetry(s) ==
    IF s.libLoaded THEN initViewer(s)
    ELSE s

waitForLibraryAndInit(s) ==
    IF s.libLoaded THEN initViewer(s)
    ELSE [s EXCEPT !.pollTimers = @ + 1]

\* cleanup that keeps the handle of the surface it cleared
cleanup_KeepsHandle(s) ==
    IF s.viewer # 0
    THEN [vClear(s) EXCEPT !.surfaces[s.viewer].released = TRUE]
    ELSE s

cleanup(s) ==
    IF s.viewer # 0
    THEN [vClear(s) EXCEPT !.surfaces[s.viewer].released = TRUE, !.viewer = 0]
    ELSE s

\* ============================================== comparison mode (SingleViewer)
\* ComparisonMode.vue renders two SingleViewer instances, "A" (left) and "B"
\* (right).  Every ref and the viewer handle of SingleViewer.vue are declared
\* in its script setup, once per instance: c.viewers[v] holds them for
\* instance v, the surface the instance created included.  A handler takes
\* the component tree c and the instance v it runs in; c.calls are the
\* library calls it makes and c.ret what it returns.

ViewerIds == { "A", "B" }

svErrEnterId == [text |-> "Please enter a PDB ID", id |-> << >>]
svErrFormat == [text |-> "PDB ID must be 4 characters", id |-> << >>]
svErrNotFound(cleanId) == [text |-> "PDB ID not found", id |-> cleanId]

\* the refs of one instance as its script setup declares them
svSetup(initialMolecule) ==
    [phase |-> "created", initialMolecule |-> initialMolecule,
     surface |-> Null, pending |-> << >>, pollTimers |-> 0,
     isLoading |-> FALSE, selectedMoleculeId |-> initialMolecule,
     selectedStyle |-> "stick", isSpinning |-> FALSE, measureMode |-> FALSE,
     selectedAtom |-> Null, measureAtom1 |-> Null, measurementDistance |-> Null,
     pdbInput |-> << >>, searchError |-> Null, customPdbId |-> Null]

\* the refs of ComparisonMode.vue and its two children; steps counts the
\* operations run in comparison mode so far; swapped is what the two viewers
\* displayed when swapMolecules was last called (kept for the claims, never
\* read by a handler)
ComparisonSetup ==
    [leftMolecule |-> "caffeine", rightMolecule |-> "aspirin",
     loadedLeftMolecule |-> [moleculeId |-> "caffeine"],
     loadedRightMolecule |-> [moleculeId |-> "aspirin"],
     viewers |-> [v \in ViewerIds |->
                    svSetup(IF v = "A" THEN "caffeine" ELSE "aspirin")],
     steps |-> 0, swapped |-> Null, calls |-> << >>, ret |-> "void"]

\* the surface createViewer returns for props.backgroundColor
svNewSurface ==
    [models |-> << >>, shapes |-> << >>, style |-> Null, spin |-> "false",
     background |-> "white"]

svCalled(c, v, fn) == [c EXCEPT !.calls = Append(@, << v, fn >>)]

svHasViewer(c, v) == ~IsNull(c.viewers[v].surface)

svClear(c, v) ==
    svCalled([c EXCEPT !.viewers[v].surface[1].models = << >>,
                       !.viewers[v].surface[1].shapes = << >>], v, "clear")

svRemoveAllLabels(c, v) == svCalled(c, v, "removeAllLabels")

svRemoveAllShapes(c, v) ==
    svCalled([c EXCEPT !.viewers[v].surface[1].shapes = << >>], v, "removeAllShapes")

svAddCylinder(c, v, from, to) ==
    svCalled([c EXCEPT !.viewers[v].surface[1].shapes =
                          Append(@, [start |-> from, end |-> to])], v, "addCylinder")

svAddModel(c, v, atoms) ==
    svCalled([c EXCEPT !.viewers[v].surface[1].models =
                          Append(@, [atoms |-> atoms, clickable |-> FALSE])], v, "addModel")

svSetClickable(c, v) ==
    svCalled([c EXCEPT !.viewers[v].surface[1].models =
                          [i \in 1..Len(@) |-> [@[i] EXCEPT !.clickable = TRUE]]],
             v, "setClickable")

svSetStyle(c, v, styleObj) ==
    svCalled([c EXCEPT !.viewers[v].surface[1].style = Some(styleObj)], v, "setStyle")

svSpin(c, v, axis) ==
    svCalled([c EXCEPT !.viewers[v].surface[1].spin = axis], v, "spin")

svRender(c, v) == svCalled(c, v, "render")
svZoomTo(c, v) == svCalled(c, v, "zoomTo")
svZoom(c, v) == svCalled(c, v, "zoom")

svSelectedAtoms(c, v) == AtomsOf(c.viewers[v].surface[1].models)

\* emit('molecule-loaded', id): ComparisonMode's onLeftMoleculeLoaded /
\* onRightMoleculeLoaded
svEmitMoleculeLoaded(c, v, loaded) ==
    IF v = "A" THEN [c EXCEPT !.loadedLeftMolecule = loaded]
    ELSE [c EXCEPT !.loadedRightMolecule = loaded]

\* buildColorStyle of SingleViewer.vue
svBuildColorStyle == "Jmol"

svApplyStyle(c, v) ==
    IF ~svHasViewer(c, v) THEN c
    ELSE svRender(svSetStyle(c, v, [style |-> c.viewers[v].selectedStyle,
                                    colorscheme |-> svBuildColorStyle]), v)

svSetupAtomClicking(c, v) ==
    IF ~svHasViewer(c, v) THEN c ELSE svSetClickable(c, v)

svFinalizeLoad(c, v) ==
    IF ~svHasViewer(c, v) THEN c
    ELSE LET c1 == svSetupAtomClicking(svApplyStyle(c, v), v)
             c2 == svRender(svZoom(svZoomTo(c1, v), v), v)
         IN svEmitMoleculeLoaded(c2, v, [moleculeId |-> c2.viewers[v].selectedMoleculeId])

svDrawMeasurementLine(c, v, atom1, atom2) ==
    IF ~svHasViewer(c, v) THEN c
    ELSE svRender(svAddCylinder(svRemoveAllShapes(c, v), v, Position(atom1), Position(atom2)), v)

svHandleMeasurementClick(c, v, atom) ==
    IF IsNull(c.viewers[v].measureAtom1)
    THEN [c EXCEPT !.viewers[v].measureAtom1 = Some(atom),
                   !.viewers[v].selectedAtom = Some(atom)]
    ELSE LET f == Val(c.viewers[v].measureAtom1)
             c1 == [c EXCEPT !.viewers[v].measurementDistance =
                                 Some(calculateDistance(f, atom))]
             c2 == svDrawMeasurementLine(c1, v, f, atom)
         IN [c2 EXCEPT !.viewers[v].measureAtom1 = Null,
                       !.viewers[v].measureMode = FALSE]

\* the callback svSetupAtomClicking registers
svOnAtomClicked(c, v, atom) ==
    IF c.viewers[v].measureMode
    THEN svHandleMeasurementClick(c, v, atom)
    ELSE [c EXCEPT !.viewers[v].selectedAtom = Some(atom)]

svClearMeasurement(c, v) ==
    LET c1 == [c EXCEPT !.viewers[v].measurementDistance = Null,
                        !.viewers[v].measureAtom1 = Null]
    IN IF svHasViewer(c1, v) THEN svRender(svRemoveAllShapes(c1, v), v) ELSE c1

svLoadInlineMolecule(c, v, pdbData) ==
    IF ~svHasViewer(c, v) THEN c
    ELSE [svFinalizeLoad(svAddModel(c, v, pdbData), v) EXCEPT !.viewers[v].isLoading = FALSE]

svDownload(c, v, kind, pdbId) ==
    svCalled([c EXCEPT !.viewers[v].pending = Append(@, [kind |-> kind, pdbId |-> pdbId])],
             v, "download")

svLoadFromPDB(c, v, pdbId) ==
    IF ~svHasViewer(c, v) THEN c ELSE svDownload(c, v, "preset", pdbId)

svOnPresetDownloaded(c, v) ==
    [svFinalizeLoad(c, v) EXCEPT !.viewers[v].isLoading = FALSE]
\* loadMolecule writing the selection of every instance, as a module-level
\* selectedMoleculeId would
svLoadMolecule_SharedSelection(c, v, moleculeId) ==
    IF ~svHasViewer(c, v) THEN c
    ELSE LET molecule == getMoleculeById(moleculeId)
         IN IF IsNull(molecule) THEN c
            ELSE LET c1 == [c EXCEPT !.viewers =
                                [u \in ViewerIds |->
                                    [@[u] EXCEPT !.selectedMoleculeId = moleculeId]],
                                     !.viewers[v].isLoading = TRUE,
                                     !.viewers[v].customPdbId = Null,
                                     !.viewers[v].searchError = Null]
                     c2 == svRemoveAllShapes(svRemoveAllLabels(svClear(c1, v), v), v)
                     c3 == svClearMeasurement([c2 EXCEPT !.viewers[v].selectedAtom = Null], v)
                 IN IF moleculeId = "ethanol"
                    THEN svLoadInlineMolecule(c3, v, ETHANOL_PDB)
                    ELSE svLoadFromPDB(c3, v, Val(molecule).pdbId)

svLoadMolecule(c, v, moleculeId) ==
    IF ~svHasViewer(c, v) THEN c
    ELSE LET molecule == getMoleculeById(moleculeId)
         IN IF IsNull(molecule) THEN c
            ELSE LET c1 == [c EXCEPT !.viewers[v].isLoading = TRUE,
                                     !.viewers[v].selectedMoleculeId = moleculeId,
                                     !.viewers[v].customPdbId = Null,
                                     !.viewers[v].searchError = Null]
                     c2 == svRemoveAllShapes(svRemoveAllLabels(svClear(c1, v), v), v)
                     c3 == svClearMeasurement([c2 EXCEPT !.viewers[v].selectedAtom = Null], v)
                 IN IF moleculeId = "ethanol"
                    THEN svLoadInlineMolecule(c3, v, ETHANOL_PDB)
                    ELSE svLoadFromPDB(c3, v, Val(molecule).pdbId)

\* handlePdbSearch, which reads the v-model pdbInput
svHandlePdbSearch(c, v) ==
    IF ~svHasViewer(c, v) \/ trim(c.viewers[v].pdbInput) = << >>
    THEN [c EXCEPT !.viewers[v].searchError = Some(svErrEnterId)]
    ELSE LET cleanId == toUpperCase(trim(c.viewers[v].pdbInput))
         IN IF ~MatchesPdbFormat(cleanId)
            THEN [c EXCEPT !.viewers[v].searchError = Some(svErrFormat)]
            ELSE LET c1 == [c EXCEPT !.viewers[v].isLoading = TRUE,
                                     !.viewers[v].searchError = Null,
                                     !.viewers[v].customPdbId = Some(cleanId)]
                     c2 == svRemoveAllShapes(svRemoveAllLabels(svClear(c1, v), v), v)
                     c3 == svClearMeasurement([c2 EXCEPT !.viewers[v].selectedAtom = Null], v)
                 IN svDownload(c3, v, "search", cleanId)

\* the completion callback handlePdbSearch passes to download
svOnSearchDownloaded(c, v, cleanId) ==
    IF ~svHasViewer(c, v) \/ Len(svSelectedAtoms(c, v)) = 0
    THEN [(IF svHasViewer(c, v) THEN svCalled(c, v, "selectedAtoms") ELSE c)
             EXCEPT !.viewers[v].searchError = Some(svErrNotFound(cleanId)),
                    !.viewers[v].customPdbId = Null,
                    !.viewers[v].isLoading = FALSE]
    ELSE LET c1 == svSetupAtomClicking(svApplyStyle(svCalled(c, v, "selectedAtoms"), v), v)
             c2 == svRender(svZoom(svZoomTo(c1, v), v), v)
             c3 == svEmitMoleculeLoaded(c2, v, [cleanId |-> cleanId])
         IN [c3 EXCEPT !.viewers[v].isLoading = FALSE]

svToggleSpin(c, v) ==
    IF ~svHasViewer(c, v) THEN c
    ELSE LET c1 == [c EXCEPT !.viewers[v].isSpinning = ~@]
         IN svSpin(c1, v, IF c1.viewers[v].isSpinning THEN "y" ELSE "false")

svResetView(c, v) ==
    IF ~svHasViewer(c, v) THEN c
    ELSE LET c1 == IF c.viewers[v].isSpinning THEN svToggleSpin(c, v) ELSE c
         IN svRender(svZoom(svZoomTo(c1, v), v), v)

\* <select v-model="selectedMoleculeId" @change="onMoleculeChange">
svOnMoleculeChange(c, v, moleculeId) ==
    svLoadMolecule([c EXCEPT !.viewers[v].selectedMoleculeId = moleculeId], v, moleculeId)

\* <select v-model="selectedStyle" @change="onStyleChange">
svOnStyleChange(c, v, styleId) ==
    svApplyStyle([c EXCEPT !.viewers[v].selectedStyle = styleId], v)

svInitViewer(c, v, lib) ==
    IF c.viewers[v].phase # "mounted" \/ ~lib THEN c
    ELSE svLoadMolecule(svCalled([c EXCEPT !.viewers[v].surface = Some(svNewSurface)],
                                 v, "createViewer"),
                        v, c.viewers[v].selectedMoleculeId)

svWaitForLibraryAndInit(c, v, lib) ==
    IF lib THEN svInitViewer(c, v, lib)
    ELSE [c EXCEPT !.viewers[v].pollTimers = @ + 1]

\* onMounted of instance v
svOnMounted(c, v, lib) ==
    svWaitForLibraryAndInit([c EXCEPT !.viewers[v].phase = "mounted"], v, lib)

\* watch(() => props.initialMolecule) of instance v
svWatchInitialMolecule(c, v) ==
    LET newMolecule == IF v = "A" THEN c.leftMolecule ELSE c.rightMolecule
    IN IF newMolecule # c.viewers[v].selectedMoleculeId
       THEN svLoadMolecule(c, v, newMolecule)
       ELSE c

\* swapMolecules of ComparisonMode.vue; the props of both children change
\* and their watchers run
swapMolecules(c) ==
    LET c1 == [c EXCEPT !.leftMolecule = c.rightMolecule,
                        !.rightMolecule = c.leftMolecule]
    IN svWatchInitialMolecule(svWatchInitialMolecule(c1, "A"), "B")

\* ------------------------------------------------------------------ actions

WithinBounds(r) ==
    /\ Len(r.surfaces) <= MaxSurfaces
    /\ Len(r.pending) <= MaxPending
    /\ r.pollTimers <= MaxTimers

\* the step that runs a handler to its end: r is the state it leaves
Commit(r, op, arg) ==
    /\ WithinBounds(r)
    /\ phase' = r.phase
    /\ libLoaded' = r.libLoaded
    /\ comparisonMode' = r.comparisonMode
    /\ pollTimers' = r.pollTimers
    /\ surfaces' = r.surfaces
    /\ pending' = r.pending
    /\ viewer' = r.viewer
    /\ isLoading' = r.isLoading
    /\ currentMolecule' = r.currentMolecule
    /\ customPdbId' = r.customPdbId
    /\ searchError' = r.searchError
    /\ selectedAtom' = r.selectedAtom
    /\ measureAtom1' = r.measureAtom1
    /\ measurementDistance' = r.measurementDistance
    /\ measureMode' = r.measureMode
    /\ atomCount' = r.atomCount
    /\ currentStyle' = r.currentStyle
    /\ currentColorScheme' = r.currentColorScheme
    /\ currentBackground' = r.currentBackground
    /\ isSpinning' = r.isSpinning
    /\ showLabels' = r.showLabels
    /\ showHelpModal' = r.showHelpModal
    /\ comparison' = comparison
    /\ calls' = r.calls
    /\ lastOp' = [op |-> op, arg |-> arg, ret |-> r.ret]

\* the refs and the viewer handle as useMoleculeViewer() declares them
Setup ==
    [phase |-> "created", libLoaded |-> FALSE, comparisonMode |-> FALSE,
     pollTimers |-> 0, surfaces |-> << >>, pending |-> << >>,
     viewer |-> 0, isLoading |-> FALSE, currentMolecule |-> defaultMolecule,
     customPdbId |-> Null, searchError |-> Null,
     selectedAtom |-> Null, measureAtom1 |-> Null,
     measurementDistance |-> Null, measureMode |-> FALSE,
     atomCount |-> 0, currentStyle |-> defaultStyle,
     currentColorScheme |-> defaultColorScheme,
     currentBackground |-> defaultBackground, isSpinning |-> FALSE,
     showLabels |-> FALSE, showHelpModal |-> FALSE,
     calls |-> << >>, ret |-> "void"]

\* the state r, reached by operation op
Installed(r, op, arg) ==
    /\ phase = r.phase
    /\ libLoaded = r.libLoaded
    /\ comparisonMode = r.comparisonMode
    /\ pollTimers = r.pollTimers
    /\ surfaces = r.surfaces
    /\ pending = r.pending
    /\ viewer = r.viewer
    /\ isLoading = r.isLoading
    /\ currentMolecule = r.currentMolecule
    /\ customPdbId = r.customPdbId
    /\ searchError = r.searchError
    /\ selectedAtom = r.selectedAtom
    /\ measureAtom1 = r.measureAtom1
    /\ measurementDistance = r.measurementDistance
    /\ measureMode = r.measureMode
    /\ atomCount = r.atomCount
    /\ currentStyle = r.currentStyle
    /\ currentColorScheme = r.currentColorScheme
    /\ currentBackground = r.currentBackground
    /\ isSpinning = r.isSpinning
    /\ showLabels = r.showLabels
    /\ showHelpModal = r.showHelpModal
    /\ comparison = ComparisonSetup
    /\ calls = r.calls
    /\ lastOp = [op |-> op, arg |-> arg, ret |-> r.ret]

Init == Installed(Setup, "setup", << >>)

\* the 3Dmol script (loaded async by useHead) finishes loading
LibraryLoads ==
    /\ ~libLoaded
    /\ Commit([State EXCEPT !.libLoaded = TRUE], "libraryLoads", << >>)

\* onMounted
Mount ==
    /\ phase = "created"
    /\ Commit(waitForLibraryAndInit([State EXCEPT !.phase = "mounted"]), "mount", << >>)

\* a setTimeout(waitForLibraryAndInit, 100) timer fires
PollTimerFires ==
    /\ pollTimers > 0
    /\ Commit(waitForLibraryAndInit([State EXCEPT !.pollTimers = @ - 1]), "pollTimer", << >>)

\* onUnmounted
Unmount ==
    /\ phase = "mounted"
    /\ Commit(cleanup([State EXCEPT !.phase = "unmounted"]), "unmount", << >>)

\* the Compare button: comparisonMode = true removes the viewer container
EnterComparison ==
    /\ phase = "mounted"
    /\ ~comparisonMode
    /\ Commit([State EXCEPT !.comparisonMode = TRUE], "enterComparison", << >>)

\* ComparisonMode emits exit: comparisonMode = false, and the watcher calls
\* initViewer() on the next tick, when the container is back
ExitComparison ==
    /\ phase = "mounted"
    /\ comparisonMode
    /\ Commit(initViewer([State EXCEPT !.comparisonMode = FALSE]),
              "exitComparison", << >>)

\* the selector of the control panel; in comparison mode the panel is not
\* rendered and only the keys 1-4 (catalog ids) reach loadMolecule
LoadMolecule(moleculeId) ==
    /\ phase = "mounted"
    /\ comparisonMode => moleculeId \in MoleculeIds
    /\ Commit(loadMolecule(State, moleculeId), "loadMolecule", moleculeId)

\* the search box of the control panel (not rendered in comparison mode)
SearchPDB(input) ==
    /\ phase = "mounted"
    /\ ~comparisonMode
    /\ Commit(searchPDB(State, input), "searchPDB", input)

\* a download finishes: the library adds what it fetched to the surface the
\* request named and runs the request's callback
completeDownload(s, i) ==
    LET req == s.pending[i]
        fetched == RemoteStructure(req.pdbId)
        s0 == [s EXCEPT
                 !.pending = SubSeq(@, 1, i - 1) \o SubSeq(@, i + 1, Len(@)),
                 !.surfaces[req.surf].models =
                     IF fetched = << >> \/ req.surf # s.viewer THEN @
                     ELSE Append(@, [atoms |-> fetched, clickable |-> FALSE])]
    IN IF req.kind = "preset"
       THEN onPresetDownloaded(s0, req.pdbId)
       ELSE onSearchDownloaded(s0, req.pdbId)

DownloadCompletes(i) ==
    Commit(completeDownload(State, i),
           IF pending[i].kind = "preset" THEN "presetCallback" ELSE "searchCallback",
           pending[i])

\* the atoms a click can hit: the clickable ones of the displayed surface
ClickableAtoms ==
    IF phase = "mounted" /\ ~comparisonMode /\ viewer # 0
    THEN UNION { { m.atoms[k] : k \in 1..(IF Len(m.atoms) < MaxClickAtoms
                                          THEN Len(m.atoms) ELSE MaxClickAtoms) }
                 : m \in { surfaces[viewer].models[j] : j \in 1..Len(surfaces[viewer].models) }
                          \cap { mm \in { surfaces[viewer].models[j] :
                                            j \in 1..Len(surfaces[viewer].models) } : mm.clickable } }
    ELSE { }

ClickAtom(atom) ==
    /\ atom \in ClickableAtoms
    /\ Commit(onAtomClicked(State, atom), "click", atom)

\* the clear button of the measurement card (not rendered in comparison mode)
ClearMeasurement ==
    /\ phase = "mounted"
    /\ ~comparisonMode
    /\ Commit(clearMeasurement(State), "clearMeasurement", << >>)

ToggleMeasureMode ==
    /\ phase = "mounted"
    /\ Commit(toggleMeasureMode(State), "toggleMeasureMode", << >>)

\* cleanup called again on a session that has been torn down
Cleanup ==
    /\ phase = "unmounted"
    /\ Commit(cleanup(State), "cleanup", << >>)

\* the labels button of the toolbar, and the key L
ToggleLabels ==
    /\ phase = "mounted"
    /\ Commit(toggleLabels(State), "toggleLabels", << >>)

\* the style, colour and background selectors of the control panel (not
\* rendered in comparison mode)
SetStyle(styleId) ==
    /\ phase = "mounted"
    /\ ~comparisonMode
    /\ Commit(setStyle(State, styleId), "setStyle", styleId)

SetColorScheme(schemeId) ==
    /\ phase = "mounted"
    /\ ~comparisonMode
    /\ Commit(setColorScheme(State, schemeId), "setColorScheme", schemeId)

SetBackground(bgId) ==
    /\ phase = "mounted"
    /\ ~comparisonMode
    /\ Commit(setBackground(State, bgId), "setBackground", bgId)

\* the spin button of the toolbar, and the key S
ToggleSpin ==
    /\ phase = "mounted"
    /\ Commit(toggleSpin(State), "toggleSpin", << >>)

\* the reset button of the toolbar, and the key R
ResetView ==
    /\ phase = "mounted"
    /\ Commit(resetView(State), "resetView", << >>)

\* a key is pressed while the page is mounted; target is the kind of element
\* that has the focus
KeyDown(eventKey, target) ==
    /\ phase = "mounted"
    /\ Commit(handleKeydown(State, eventKey, target), "keydown",
              [key |-> eventKey, target |-> target])

\* ------------------------------------------------------------ specification

LoadInputs == { "caffeine", "ethanol", "unknown" }

SearchInputs ==
    { << "1", "c", "r", "n" >>,
      << "9", "z", "z", "z" >>,
      << "1", "2", "-", "3" >>,
      << " " >> }

Next ==
    \/ LibraryLoads
    \/ Mount
    \/ PollTimerFires
    \/ Unmount
    \/ EnterComparison
    \/ ExitComparison
    \/ \E moleculeId \in LoadInputs : LoadMolecule(moleculeId)
    \/ \E input \in SearchInputs : SearchPDB(input)
    \/ \E i \in 1..Len(pending) : DownloadCompletes(i)
    \/ \E atom \in ClickableAtoms : ClickAtom(atom)
    \/ ClearMeasurement
    \/ ToggleMeasureMode

Spec == Init /\ [][Next]_vars

\* ------------------------------------------- specification of the search

\* the session once the page has loaded: library loaded, view mounted, the
\* default molecule downloaded and shown
Ready ==
    completeDownload(
        [waitForLibraryAndInit([Setup EXCEPT !.libLoaded = TRUE, !.phase = "mounted"])
            EXCEPT !.calls = << >>], 1)

\* the session mounted before the 3Dmol script has loaded: no surface yet
Waiting ==
    waitForLibraryAndInit([Setup EXCEPT !.phase = "mounted"])

InitSearch ==
    \/ Installed(Ready, "presetCallback",
                 [kind |-> "preset", pdbId |-> Val(getMoleculeById(defaultMolecule)).pdbId,
                  surf |-> 1, before |-> Null])
    \/ Installed(Waiting, "mount", << >>)

SearchAlphabet == { "1", "c", "C", "-", " " }

ExampleInputs ==
    { << "1", "c", "r", "n" >>,
      << "a", "b", "c", "d", "e" >>,
      << "a", "b" >>,
      << "1", "2", "-", "3" >>,
      << " ", "1", "c", "r", "n", " " >> }

AllInputs ==
    ExampleInputs \cup UNION { [1..k -> SearchAlphabet] : k \in 0..MaxInputLen }

\* one search at a time, submitted when the session has settled (a rejected
\* search leaves nothing behind that a further input could meet)
SubmitSearch(input) ==
    /\ pending = << >>
    /\ lastOp.op # "searchPDB"
    /\ SearchPDB(input)

NextSearch ==
    \/ \E input \in AllInputs : SubmitSearch(input)
    \/ \E i \in 1..Len(pending) : DownloadCompletes(i)

SpecSearch == InitSearch /\ [][NextSearch]_vars

\* ------------------------------- specification of loading and the labels

LabelLoadInputs == MoleculeIds \cup { "unknown" }

LabelSearchInputs == { << "4", "h", "h", "b" >>, << "9", "z", "z", "z" >> }

NextLabels ==
    \/ LibraryLoads
    \/ PollTimerFires
    \/ \E moleculeId \in LabelLoadInputs : LoadMolecule(moleculeId)
    \/ \E input \in LabelSearchInputs : SearchPDB(input)
    \/ \E i \in 1..Len(pending) : DownloadCompletes(i)
    \/ \E atom \in ClickableAtoms : ClickAtom(atom)
    \/ ToggleMeasureMode
    \/ ToggleLabels

SpecLabels == InitSearch /\ [][NextLabels]_vars

\* ------------------------------- specification of the display settings

StyleInputs == { "sphere", "bogus" }

ColorSchemeInputs == { "carbon", "bogus" }

BackgroundInputs == { "black", "bogus" }

SettingsLoadInputs == { "ethanol" }

NextSettings ==
    \/ LibraryLoads
    \/ PollTimerFires
    \/ \E styleId \in StyleInputs : SetStyle(styleId)
    \/ \E schemeId \in ColorSchemeInputs : SetColorScheme(schemeId)
    \/ \E bgId \in BackgroundInputs : SetBackground(bgId)
    \/ \E moleculeId \in SettingsLoadInputs : LoadMolecule(moleculeId)
    \/ \E i \in 1..Len(pending) : DownloadCompletes(i)
    \/ ToggleSpin
    \/ ResetView

SpecSettings == InitSearch /\ [][NextSettings]_vars

\* ------------------------------------------ specification of the spin

SpinLoadInputs == { "ethanol", "aspirin" }

NextSpin ==
    \/ LibraryLoads
    \/ PollTimerFires
    \/ ToggleSpin
    \/ ResetView
    \/ EnterComparison
    \/ ExitComparison
    \/ \E moleculeId \in SpinLoadInputs : LoadMolecule(moleculeId)
    \/ \E i \in 1..Len(pending) : DownloadCompletes(i)

SpecSpin == InitSearch /\ [][NextSpin]_vars

\* ------------------------------------------ specification of the keys

KeyInputs ==
    { << "r" >>, << "R" >>, << "s" >>, << "S" >>, << "1" >>, << "2" >>, << "3" >>,
      << "4" >>, << "5" >>, << " " >>, << "m" >>, << "M" >>, << "l" >>, << "L" >>,
      << "?" >>, << "x" >>, << "E", "n", "t", "e", "r" >> }

TargetInputs == { "body", "input", "textarea" }

NextKeys ==
    \/ LibraryLoads
    \/ PollTimerFires
    \/ \E eventKey \in KeyInputs, target \in TargetInputs : KeyDown(eventKey, target)
    \/ \E i \in 1..Len(pending) : DownloadCompletes(i)

SpecKeys == InitSearch /\ [][NextKeys]_vars

\* --------------------------------------- specification of the distance

\* the coordinates of the atoms measured, in 1/1000 of the unit
GridCoordinates == { -1000, 0, 3000, 4000 }

GridAtoms ==
    { Atom(1, "C", x, y, z) : x \in GridCoordinates, y \in GridCoordinates,
                              z \in GridCoordinates }

\* a measurement under way: mode on, the first atom clicked
InitDistance ==
    \E a \in GridAtoms :
        Installed(handleMeasurementClick(toggleMeasureMode(Ready), a), "click", a)

\* the second click of the measurement, on any atom of the grid
MeasureTo(b) ==
    /\ measureMode
    /\ ~IsNull(measureAtom1)
    /\ Commit(onAtomClicked(State, b), "click", b)

NextDistance == \E b \in GridAtoms : MeasureTo(b)

SpecDistance == InitDistance /\ [][NextDistance]_vars

\* --------------------------------------- specification of the lifecycle

LifecycleLoadInputs == { "ethanol" }

LifecycleSearchInputs == { << "1", "c", "r", "n" >> }

NextLifecycle ==
    \/ LibraryLoads
    \/ Mount
    \/ PollTimerFires
    \/ Unmount
    \/ EnterComparison
    \/ ExitComparison
    \/ \E moleculeId \in LifecycleLoadInputs : LoadMolecule(moleculeId)
    \/ \E input \in LifecycleSearchInputs : SearchPDB(input)
    \/ \E i \in 1..Len(pending) : DownloadCompletes(i)
    \/ Cleanup

SpecLifecycle == Init /\ [][NextLifecycle]_vars

\* a timer set by setTimeout fires: the browser runs every timer that is due
SpecLifecycleFair == SpecLifecycle /\ WF_vars(PollTimerFires)

\* ------------------------------------ the steps of the comparison component

\* the state of the session proper, which no step of a SingleViewer touches
sessionVars ==
    << phase, libLoaded, comparisonMode, pollTimers, surfaces, pending, viewer,
       isLoading, currentMolecule, customPdbId, searchError, selectedAtom,
       measureAtom1, measurementDistance, measureMode, atomCount, currentStyle,
       currentColorScheme, currentBackground, isSpinning, showLabels,
       showHelpModal >>

Comparison == [comparison EXCEPT !.calls = << >>, !.ret = "void"]

CommitComparison(c, op, arg) ==
    /\ \A v \in ViewerIds : Len(c.viewers[v].pending) <= MaxPending
    /\ comparison.steps < MaxComparisonSteps
    /\ comparison' = [c EXCEPT !.steps = @ + 1, !.calls = << >>, !.ret = "void"]
    /\ calls' = c.calls
    /\ lastOp' = [op |-> op, arg |-> arg, ret |-> c.ret]
    /\ UNCHANGED sessionVars

SvMount(v) ==
    /\ comparisonMode
    /\ comparison.viewers[v].phase = "created"
    /\ CommitComparison(svOnMounted(Comparison, v, libLoaded), "sv.mount", [viewer |-> v])

SvMoleculeChange(v, moleculeId) ==
    /\ comparison.viewers[v].phase = "mounted"
    /\ CommitComparison(svOnMoleculeChange([Comparison EXCEPT !.swapped = Null], v, moleculeId),
                        "sv.moleculeChange", [viewer |-> v, input |-> moleculeId])

\* typing into the search box and submitting it
SvSearch(v, input) ==
    /\ comparison.viewers[v].phase = "mounted"
    /\ CommitComparison(svHandlePdbSearch([Comparison EXCEPT !.viewers[v].pdbInput = input,
                                                             !.swapped = Null], v),
                        "sv.search", [viewer |-> v, input |-> input])

SvStyleChange(v, styleId) ==
    /\ comparison.viewers[v].phase = "mounted"
    /\ CommitComparison(svOnStyleChange(Comparison, v, styleId),
                        "sv.styleChange", [viewer |-> v, input |-> styleId])

SvToggleSpin(v) ==
    /\ comparison.viewers[v].phase = "mounted"
    /\ CommitComparison(svToggleSpin(Comparison, v), "sv.toggleSpin", [viewer |-> v])

SvResetView(v) ==
    /\ comparison.viewers[v].phase = "mounted"
    /\ CommitComparison(svResetView(Comparison, v), "sv.resetView", [viewer |-> v])

SvClearMeasurement(v) ==
    /\ comparison.viewers[v].phase = "mounted"
    /\ CommitComparison(svClearMeasurement(Comparison, v), "sv.clearMeasurement", [viewer |-> v])

svClickableAtoms(v) ==
    IF comparison.viewers[v].phase = "mounted" /\ svHasViewer(comparison, v)
    THEN LET ms == comparison.viewers[v].surface[1].models
         IN UNION { { ms[j].atoms[k] : k \in 1..(IF Len(ms[j].atoms) < MaxClickAtoms
                                                 THEN Len(ms[j].atoms) ELSE MaxClickAtoms) }
                    : j \in { i \in 1..Len(ms) : ms[i].clickable } }
    ELSE { }

SvClickAtom(v, atom) ==
    /\ atom \in svClickableAtoms(v)
    /\ CommitComparison(svOnAtomClicked(Comparison, v, atom), "sv.click",
                        [viewer |-> v, input |-> atom])

\* a download of instance v finishes: the library adds what it fetched to the
\* surface of v and runs the callback
svCompleteDownload(c, v) ==
    LET req == Head(c.viewers[v].pending)
        fetched == RemoteStructure(req.pdbId)
        c0 == [c EXCEPT !.viewers[v].pending = Tail(@),
                        !.viewers[v].surface[1].models =
                            IF fetched = << >> THEN @
                            ELSE Append(@, [atoms |-> fetched, clickable |-> FALSE])]
    IN IF req.kind = "preset" THEN svOnPresetDownloaded(c0, v)
       ELSE svOnSearchDownloaded(c0, v, req.pdbId)

SvDownloadCompletes(v) ==
    /\ comparison.viewers[v].pending # << >>
    /\ CommitComparison(svCompleteDownload(Comparison, v), "sv.downloadCallback",
                        [viewer |-> v, input |-> Head(comparison.viewers[v].pending)])

\* whether instance v displays the preset its selector names: a surface, no
\* request in flight, no custom structure
svSettled(c, v) ==
    /\ svHasViewer(c, v)
    /\ c.viewers[v].pending = << >>
    /\ ~c.viewers[v].isLoading
    /\ IsNull(c.viewers[v].customPdbId)

SwapMolecules ==
    /\ \A v \in ViewerIds : comparison.viewers[v].phase = "mounted"
    /\ CommitComparison(
           swapMolecules(
               [Comparison EXCEPT !.swapped =
                   IF \A v \in ViewerIds : svSettled(comparison, v)
                   THEN Some([v \in ViewerIds |-> comparison.viewers[v].selectedMoleculeId])
                   ELSE Null]),
           "swapMolecules", << >>)

\* ------------------------------------------- specification of the swap

\* comparison mode once both viewers have mounted and shown the molecule
\* the parent gave them
ComparisonReady ==
    LET mounted == svOnMounted(svOnMounted(ComparisonSetup, "A", TRUE), "B", TRUE)
        loaded == svCompleteDownload(svCompleteDownload(mounted, "A"), "B")
    IN [loaded EXCEPT !.calls = << >>, !.ret = "void"]

InitSwap ==
    LET r == [Ready EXCEPT !.comparisonMode = TRUE]
    IN
    /\ phase = r.phase
    /\ libLoaded = r.libLoaded
    /\ comparisonMode = r.comparisonMode
    /\ pollTimers = r.pollTimers
    /\ surfaces = r.surfaces
    /\ pending = r.pending
    /\ viewer = r.viewer
    /\ isLoading = r.isLoading
    /\ currentMolecule = r.currentMolecule
    /\ customPdbId = r.customPdbId
    /\ searchError = r.searchError
    /\ selectedAtom = r.selectedAtom
    /\ measureAtom1 = r.measureAtom1
    /\ measurementDistance = r.measurementDistance
    /\ measureMode = r.measureMode
    /\ atomCount = r.atomCount
    /\ currentStyle = r.currentStyle
    /\ currentColorScheme = r.currentColorScheme
    /\ currentBackground = r.currentBackground
    /\ isSpinning = r.isSpinning
    /\ showLabels = r.showLabels
    /\ showHelpModal = r.showHelpModal
    /\ comparison = ComparisonReady
    /\ calls = << >>
    /\ lastOp = [op |-> "sv.downloadCallback", arg |-> [viewer |-> "B"], ret |-> "void"]

SwapLoadInputs == { "ethanol", "glucose" }

NextSwap ==
    \/ \E v \in ViewerIds : \E moleculeId \in SwapLoadInputs : SvMoleculeChange(v, moleculeId)
    \/ \E v \in ViewerIds : SvDownloadCompletes(v)
    \/ SwapMolecules

SpecSwap == InitSwap /\ [][NextSwap]_vars

\* ------------------------------------- specification of comparison mode

\* the page has loaded and the Compare button has been clicked
InitComparison ==
    /\ Installed([Ready EXCEPT !.comparisonMode = TRUE], "enterComparison", << >>)

CompareLoadInputs == { "ethanol" }
CompareSearchInputs == { << "1", "c", "r", "n" >>, << "1", "2", "-", "3" >> }
CompareStyleInputs == { "sphere" }

NextComparison ==
    \/ \E v \in ViewerIds : SvMount(v)
    \/ \E v \in ViewerIds : \E moleculeId \in CompareLoadInputs : SvMoleculeChange(v, moleculeId)
    \/ \E v \in ViewerIds : \E input \in CompareSearchInputs : SvSearch(v, input)
    \/ \E v \in ViewerIds : \E styleId \in CompareStyleInputs : SvStyleChange(v, styleId)
    \/ \E v \in ViewerIds : SvToggleSpin(v)
    \/ \E v \in ViewerIds : SvResetView(v)
    \/ \E v \in ViewerIds : SvClearMeasurement(v)
    \/ \E v \in ViewerIds : \E atom \in svClickableAtoms(v) : SvClickAtom(v, atom)
    \/ \E v \in ViewerIds : SvDownloadCompletes(v)
    \/ SwapMolecules

SpecComparison == InitComparison /\ [][NextComparison]_vars

\* ================================================================== claims

\* the calls of the last step, by name
CallNames == { calls[i][2] : i \in 1..Len(calls) }

\* the shapes on the surface the session holds
Indicator == IF viewer = 0 THEN << >> ELSE surfaces[viewer].shapes

\* d is the square root of n: d.root is its integer part, d.rem what is left
IsSqrtOf(d, n) ==
    /\ d.root >= 0
    /\ d.rem >= 0
    /\ d.root * d.root + d.rem = n
    /\ d.rem <= 2 * d.root

SquaredDistance(a, b) ==
    (a.x - b.x) * (a.x - b.x) + (a.y - b.y) * (a.y - b.y) + (a.z - b.z) * (a.z - b.z)

\* C1: in every reachable state, a non-null measurementDistance implies that
\* no first atom is held (measureAtom1 is null).
C1_DistanceImpliesNoFirstAtom ==
    ~IsNull(measurementDistance) => IsNull(measureAtom1)

\* C2: in every reachable state, measure mode off implies that no first atom
\* is held.
C2_ModeOffNoFirstAtom ==
    ~measureMode => IsNull(measureAtom1)

\* C2 witness: measure mode has just been turned off by the toggle, after a
\* click that had picked an atom while the session shows a structure.
C2_Witness ==
    /\ lastOp.op = "toggleMeasureMode"
    /\ ~measureMode
    /\ ~IsNull(selectedAtom)
    /\ IsNull(measureAtom1)

\* C3: a click on atom p while measure mode is on and a first atom f is held
\* sets the distance to the Euclidean distance of f and p, leaves exactly the
\* cylinder from f to p on the surface, clears the first atom and turns
\* measure mode off.
C3_SecondClickCompletes ==
    [][ (lastOp'.op = "click" /\ measureMode /\ ~IsNull(measureAtom1)) =>
          LET f == Val(measureAtom1)
              p == lastOp'.arg
          IN /\ ~IsNull(measurementDistance')
             /\ IsSqrtOf(Val(measurementDistance'), SquaredDistance(f, p))
             /\ surfaces'[viewer'].shapes = << [start |-> Position(f), end |-> Position(p)] >>
             /\ IsNull(measureAtom1')
             /\ ~measureMode' ]_vars

\* C3 witness: a measurement between two different atoms has just been
\* completed by a click: the distance is 5 Angstrom and the cylinder is drawn.
C3_Witness ==
    /\ lastOp.op = "click"
    /\ measurementDistance = Some([root |-> 5000, rem |-> 0])
    /\ Len(Indicator) = 1
    /\ Indicator[1].start # Indicator[1].end
    /\ ~measureMode
    /\ IsNull(measureAtom1)

\* C4: clearMeasurement leaves the distance and the first atom null and the
\* surface without indicator, and leaves measureMode and selectedAtom as
\* they were.
C4_ClearMeasurementFrame ==
    [][ lastOp'.op = "clearMeasurement" =>
          /\ IsNull(measurementDistance')
          /\ IsNull(measureAtom1')
          /\ (viewer' # 0 => surfaces'[viewer'].shapes = << >>)
          /\ measureMode' = measureMode
          /\ selectedAtom' = selectedAtom ]_vars

\* C4 witness: clearMeasurement has just run on a session with a surface
\* while measure mode was on and an atom selected; the mode is still on.
C4_Witness ==
    /\ lastOp.op = "clearMeasurement"
    /\ viewer # 0
    /\ "removeAllShapes" \in CallNames
    /\ measureMode
    /\ ~IsNull(selectedAtom)

\* the last step ran the body of loadMolecule for a catalog id (directly or
\* from initViewer), or a searchPDB that was accepted
LoadIssued ==
    \/ /\ lastOp.op \in { "loadMolecule", "mount", "pollTimer", "exitComparison" }
       /\ "clear" \in CallNames
    \/ /\ lastOp.op = "searchPDB"
       /\ lastOp.ret = "pending"

\* C5 (as claimed): immediately after a new structure load is issued,
\* measureMode is false, the first atom is null and the distance is null.
C5_LoadResetsMeasurement ==
    LoadIssued => (~measureMode /\ IsNull(measureAtom1) /\ IsNull(measurementDistance))

\* C5 (amended): a step that issues a new structure load leaves the first
\* atom and the distance null, and leaves measureMode as it was.
C5_LoadClearsMeasurementKeepsMode ==
    [][ LoadIssued' =>
          /\ IsNull(measureAtom1')
          /\ IsNull(measurementDistance')
          /\ measureMode' = measureMode ]_vars

\* C5 witness: a load has just been issued and measure mode is still on.
C5_Witness ==
    /\ LoadIssued
    /\ measureMode
    /\ IsNull(measureAtom1)
    /\ IsNull(measurementDistance)

\* C6 (as claimed): when the completion callback of a search finds no atom,
\* the loading flag is cleared, the not-found error is in searchError, the
\* search resolves false, and the selector, the custom identifier and the
\* displayed structure are what they were when the search was submitted.
C6_NotFoundLeavesPriorState ==
    (lastOp.op = "searchCallback" /\ lastOp.ret = "false") =>
        /\ ~isLoading
        /\ searchError = Some(ErrNotFound(lastOp.arg.pdbId))
        /\ currentMolecule = Val(lastOp.arg.before).currentMolecule
        /\ customPdbId = Val(lastOp.arg.before).customPdbId
        /\ (viewer # 0 => surfaces[viewer].models = Val(lastOp.arg.before).models)

\* the claims' reading of the search input, stated apart from the handlers:
\* the part of s from its first to its last character that is not a space
NonSpaces(s) == { i \in 1..Len(s) : s[i] # " " }

Trimmed(s) ==
    IF NonSpaces(s) = { } THEN << >>
    ELSE SubSeq(s, CHOOSE i \in NonSpaces(s) : \A j \in NonSpaces(s) : i <= j,
                   CHOOSE i \in NonSpaces(s) : \A j \in NonSpaces(s) : i >= j)

Uppercased(c) ==
    IF \E i \in 1..Len(LowerCase) : LowerCase[i] = c
    THEN UpperCase[CHOOSE i \in 1..Len(LowerCase) : LowerCase[i] = c]
    ELSE c

Normalized(s) == [i \in 1..Len(Trimmed(s)) |-> Uppercased(Trimmed(s)[i])]

\* exactly 4 characters, each in A-Z or 0-9
IsPdbIdentifier(n) ==
    /\ Len(n) = 4
    /\ \A i \in 1..Len(n) : n[i] \in Digits \cup { UpperCase[k] : k \in 1..Len(UpperCase) }

\* C7: searchPDB with an input whose trimmed, uppercased form is not 4
\* alphanumeric characters returns false, sets searchError, requests no
\* download and changes nothing else.
C7_InvalidSearchChangesNothing ==
    [][ (lastOp'.op = "searchPDB" /\ ~IsPdbIdentifier(Normalized(lastOp'.arg))) =>
          /\ lastOp'.ret = "false"
          /\ ~IsNull(searchError')
          /\ calls' = << >>
          /\ UNCHANGED << pending, surfaces, viewer, isLoading, currentMolecule,
                          customPdbId, selectedAtom, measureAtom1,
                          measurementDistance, measureMode, atomCount >> ]_vars

\* C7 witness: "12-3" has just been rejected on a session that has a surface,
\* an atom selected and measure mode on.
C7_Witness ==
    /\ lastOp.op = "searchPDB"
    /\ lastOp.arg = << "1", "2", "-", "3" >>
    /\ lastOp.ret = "false"
    /\ searchError = Some(ErrFormat)
    /\ viewer # 0
    /\ ~IsNull(selectedAtom)
    /\ measureMode

\* C8 (as claimed): for every input, a search is accepted (a download is
\* requested) iff the trimmed, uppercased input is 4 characters of A-Z, 0-9,
\* and the identifier requested and recorded is that normalized form.
C8_AcceptedIffPdbIdentifier ==
    [][ lastOp'.op = "searchPDB" =>
          LET n == Normalized(lastOp'.arg)
          IN /\ (lastOp'.ret = "pending") <=> IsPdbIdentifier(n)
             /\ (\E i \in 1..Len(calls') : calls'[i][2] = "download") <=> IsPdbIdentifier(n)
             /\ IsPdbIdentifier(n) =>
                  /\ customPdbId' = Some(n)
                  /\ Len(pending') = Len(pending) + 1
                  /\ pending'[Len(pending')].pdbId = n ]_vars

\* C8 (amended): on a session that holds a rendering surface, a search is
\* accepted (a download is requested) iff the trimmed, uppercased input is 4
\* characters of A-Z, 0-9, and the identifier requested and recorded is that
\* normalized form; on a session without a surface every input is rejected.
C8_AcceptedIffPdbIdentifierOnSurface ==
    [][ lastOp'.op = "searchPDB" =>
          LET n == Normalized(lastOp'.arg)
              accepted == viewer # 0 /\ IsPdbIdentifier(n)
          IN /\ (lastOp'.ret = "pending") <=> accepted
             /\ (lastOp'.ret = "false") <=> ~accepted
             /\ (\E i \in 1..Len(calls') : calls'[i][2] = "download") <=> accepted
             /\ accepted =>
                  /\ customPdbId' = Some(n)
                  /\ Len(pending') = Len(pending) + 1
                  /\ pending'[Len(pending')].pdbId = n
                  /\ pending'[Len(pending')].kind = "search"
             /\ ~accepted =>
                  /\ pending' = pending
                  /\ customPdbId' = customPdbId ]_vars

\* C8 witness: " 1crn " has just been accepted and is requested and recorded
\* as "1CRN".
C8_Witness ==
    /\ lastOp.op = "searchPDB"
    /\ lastOp.arg = << " ", "1", "c", "r", "n", " " >>
    /\ lastOp.ret = "pending"
    /\ viewer # 0
    /\ customPdbId = Some(Str4("1", "C", "R", "N"))
    /\ Len(pending) = 1
    /\ pending[1].pdbId = Str4("1", "C", "R", "N")

\* C9 (as claimed): when the completion callback of a search for X runs and
\* the structure of X has at least one atom, customPdbId is X afterwards and
\* the search resolves true.
C9_FoundSearchRecordsItsId ==
    (lastOp.op = "searchCallback" /\ RemoteStructure(lastOp.arg.pdbId) # << >>) =>
        /\ customPdbId = Some(lastOp.arg.pdbId)
        /\ lastOp.ret = "true"

\* the surfaces created and not released by cleanup
LiveSurfaces == { i \in 1..Len(surfaces) : ~surfaces[i].released }

\* C10 (as claimed): the session has at most one rendering surface that it
\* created and has not released.
C10_AtMostOneLiveSurface ==
    Cardinality(LiveSurfaces) <= 1

\* the operations performed on one SingleViewer instance
SvOps ==
    { "sv.mount", "sv.moleculeChange", "sv.search", "sv.styleChange", "sv.toggleSpin",
      "sv.resetView", "sv.clearMeasurement", "sv.click", "sv.downloadCallback" }

\* C11: in comparison mode an operation performed on one viewer (mount, atom
\* click, clear of the measurement, preset load, search, style change, spin,
\* reset, download callback) leaves every state variable and the rendering
\* surface of the other viewer unchanged.
C11_ViewersIndependent ==
    [][ \A v \in ViewerIds :
          (lastOp'.op \in SvOps /\ lastOp'.arg.viewer # v) =>
              comparison'.viewers[v] = comparison.viewers[v] ]_vars

\* C11 witness: viewer A has just loaded ethanol from its selector while
\* viewer B shows aspirin with an atom selected.
C11_Witness ==
    /\ lastOp.op = "sv.moleculeChange"
    /\ lastOp.arg.viewer = "A"
    /\ comparison.viewers["A"].selectedMoleculeId = "ethanol"
    /\ Len(svSelectedAtoms(comparison, "A")) = 9
    /\ comparison.viewers["B"].selectedMoleculeId = "aspirin"
    /\ ~IsNull(comparison.viewers["B"].selectedAtom)

\* the atoms of the structure on the surface the session holds, in model order
SurfaceAtoms ==
    IF viewer = 0 THEN << >> ELSE AtomsOf(surfaces[viewer].models)

\* the labels on the surface the session holds
SurfaceLabels == IF viewer = 0 THEN << >> ELSE surfaces[viewer].labels

IsLabelRequest(call) == call[2] = "addLabel"

\* the label requests among the calls of a step
LabelRequests(cs) == SelectSeq(cs, IsLabelRequest)

\* the positions in atoms of the atoms that are not hydrogen
HeavyIndices(atoms) == { i \in 1..Len(atoms) : atoms[i].elem # "H" }

\* for each position i, how many of the atoms 1..i are not hydrogen
HeavyRank(atoms) ==
    [i \in 0..Len(atoms) |-> Cardinality({ k \in 1..i : atoms[k].elem # "H" })]

Min(a, b) == IF a <= b THEN a ELSE b

LoadOps == { "loadMolecule", "presetCallback", "searchCallback" }

C13_AtMostFiftyLabelsOnlyWhileShown ==
    /\ Len(SurfaceLabels) <= 50
    /\ SurfaceLabels # << >> => showLabels

\* the second half of C13 alone
C13_LabelsOnlyWhileShown ==
    SurfaceLabels # << >> => showLabels

\* C14: a further call of cleanup after the teardown leaves every variable of
\* the session as the first call left it, makes no call into a rendering
\* surface and returns normally.
C14_CleanupIdempotent ==
    [][ lastOp'.op = "cleanup" =>
          /\ calls' = << >>
          /\ lastOp'.ret = "void"
          /\ UNCHANGED sessionVars ]_vars

\* C14 witness: cleanup has run a second time on a session whose first
\* teardown released the surface it held.
C14_Witness ==
    /\ lastOp.op = "cleanup"
    /\ viewer = 0
    /\ \E i \in 1..Len(surfaces) : surfaces[i].released

CallbackOps == { "presetCallback", "searchCallback" }

C16_DisposedIsTerminal ==
    [][ phase = "unmounted" =>
          /\ phase' = "unmounted"
          /\ viewer' = 0
          /\ Len(surfaces') = Len(surfaces)
          /\ calls' = << >>
          /\ lastOp'.op \in CallbackOps => ~isLoading' ]_vars

\* C16 witness: a download requested before the teardown has completed after
\* it, while the load was still flagged.
C16_Witness ==
    /\ lastOp.op \in CallbackOps
    /\ phase = "unmounted"
    /\ surfaces # << >>
    /\ ~isLoading

\* a poll timer has fired after the teardown, with the library loaded
C16_LateTimer ==
    /\ lastOp.op = "pollTimer"
    /\ phase = "unmounted"
    /\ libLoaded

\* whether a step called the download function of the library
DownloadIssued(cs) == \E i \in 1..Len(cs) : cs[i][2] = "download"

\* C17 (as claimed): for every catalog entry loadMolecule issues a download
\* iff the entry's database identifier is not INLINE; loading ethanol issues
\* none, and when the call returns isLoading is false and atomCount is 9.
C17_DownloadIffNotInline ==
    [][ (lastOp'.op = "loadMolecule" /\ lastOp'.arg \in MoleculeIds) =>
          /\ DownloadIssued(calls') <=>
                 Val(getMoleculeById(lastOp'.arg)).pdbId # "INLINE"
          /\ lastOp'.arg = "ethanol" =>
                 (~DownloadIssued(calls') /\ ~isLoading' /\ atomCount' = 9) ]_vars

\* C17 (amended): the same on a session that holds a rendering surface, where
\* loading ethanol also puts the 9 atoms of the inline data on the surface;
\* on a session without a surface loadMolecule issues nothing and changes
\* nothing.
C17_DownloadIffNotInlineOnSurface ==
    [][ (lastOp'.op = "loadMolecule" /\ lastOp'.arg \in MoleculeIds) =>
          IF viewer # 0
          THEN /\ DownloadIssued(calls') <=>
                      Val(getMoleculeById(lastOp'.arg)).pdbId # "INLINE"
               /\ DownloadIssued(calls') =>
                      /\ Len(pending') = Len(pending) + 1
                      /\ pending'[Len(pending')].pdbId =
                             Val(getMoleculeById(lastOp'.arg)).pdbId
               /\ lastOp'.arg = "ethanol" =>
                      /\ ~DownloadIssued(calls')
                      /\ pending' = pending
                      /\ ~isLoading'
                      /\ atomCount' = 9
                      /\ Len(SurfaceAtoms') = 9
          ELSE /\ calls' = << >>
               /\ UNCHANGED sessionVars ]_vars

\* C17 witness: ethanol has just been loaded over a remote structure: no
\* download, not loading, 9 atoms.
C17_Witness ==
    /\ lastOp.op = "loadMolecule"
    /\ lastOp.arg = "ethanol"
    /\ viewer # 0
    /\ ~DownloadIssued(calls)
    /\ pending = << >>
    /\ ~isLoading
    /\ atomCount = 9
    /\ currentMolecule = "ethanol"

\* the label the session asks for an atom
LabelOf(atom) ==
    [text |-> atom.elem, position |-> [x |-> atom.x, y |-> atom.y, z |-> atom.z]]

\* what a load that has just been issued leaves of the state before it:
\* nothing selected, no measurement, no indicator, and first the three
\* clearing calls
LoadCleared ==
    /\ IsNull(selectedAtom')
    /\ IsNull(measureAtom1')
    /\ IsNull(measurementDistance')
    /\ Indicator' = << >>
    /\ Len(calls') >= 3
    /\ << calls'[1][2], calls'[2][2], calls'[3][2] >> =
           << "clear", "removeAllLabels", "removeAllShapes" >>

\* a call with an id that is not in the catalog changes nothing
UnknownIdIsNoOp ==
    /\ calls' = << >>
    /\ UNCHANGED sessionVars

\* C18 (as claimed): on a session that has a surface, immediately after
\* loadMolecule with a catalog id nothing is selected, first atom and
\* distance are null and the surface carries no indicator and no labels;
\* with an id not in the catalog the call changes nothing.
C18_LoadLeavesNoLabels ==
    [][ (lastOp'.op = "loadMolecule" /\ viewer # 0) =>
          IF lastOp'.arg \in MoleculeIds
          THEN LoadCleared /\ SurfaceLabels' = << >>
          ELSE UnknownIdIsNoOp ]_vars

\* C18 (amended): as claimed, except that the inline entry is loaded within
\* the call, so that after it the surface carries that structure and, when
\* showLabels is on, the labels of its three non-hydrogen atoms and no other;
\* for a remote entry the surface carries no structure and no labels.
C18_LoadLeavesOnlyNewLabels ==
    [][ (lastOp'.op = "loadMolecule" /\ viewer # 0) =>
          IF lastOp'.arg \in MoleculeIds
          THEN /\ LoadCleared
               /\ lastOp'.arg # "ethanol" =>
                      (SurfaceAtoms' = << >> /\ SurfaceLabels' = << >>)
               /\ lastOp'.arg = "ethanol" =>
                      /\ SurfaceAtoms' = ETHANOL_PDB
                      /\ SurfaceLabels' =
                             IF showLabels
                             THEN << LabelOf(ETHANOL_PDB[1]), LabelOf(ETHANOL_PDB[2]),
                                     LabelOf(ETHANOL_PDB[3]) >>
                             ELSE << >>
          ELSE UnknownIdIsNoOp ]_vars

\* C18 witness: ethanol has just been loaded with labels and measure mode on:
\* the surface carries the three labels of ethanol, nothing is selected.
C18_Witness ==
    /\ lastOp.op = "loadMolecule"
    /\ lastOp.arg = "ethanol"
    /\ showLabels
    /\ measureMode
    /\ Len(SurfaceLabels) = 3
    /\ IsNull(selectedAtom)
    /\ Indicator = << >>

\* an unknown id has just been given to loadMolecule while a measurement is
\* shown
C18_UnknownIdWitness ==
    /\ lastOp.op = "loadMolecule"
    /\ lastOp.arg = "unknown"
    /\ viewer # 0
    /\ Indicator # << >>
    /\ ~IsNull(measurementDistance)

\* the style the surface the session holds was last given
AppliedStyle == Val(surfaces[viewer].style)

\* C19 (as claimed): after setStyle, setColorScheme or setBackground with an
\* id that is not in its option table, what is applied to the surface is the
\* default: style stick, colour scheme Jmol, background white.
C19_UnknownIdFallsBackToDefault ==
    /\ (lastOp.op = "setStyle" /\ lastOp.arg \notin StyleIds /\ viewer # 0) =>
           AppliedStyle.style = "stick"
    /\ (lastOp.op = "setColorScheme" /\ lastOp.arg \notin ColorSchemeIds /\ viewer # 0) =>
           AppliedStyle.colorscheme = "Jmol"
    /\ (lastOp.op = "setBackground" /\ viewer # 0
          /\ lastOp.arg \notin { BACKGROUNDS[i].id : i \in 1..Len(BACKGROUNDS) }) =>
           surfaces[viewer].background = "white"

\* the part of C19 that holds: an unknown colour scheme is applied as Jmol
C19_UnknownColorSchemeIsJmol ==
    (lastOp.op = "setColorScheme" /\ lastOp.arg \notin ColorSchemeIds /\ viewer # 0) =>
        AppliedStyle.colorscheme = "Jmol"

\* an unknown style is not applied as stick
C19_UnknownStyleIsStick ==
    (lastOp.op = "setStyle" /\ lastOp.arg \notin StyleIds /\ viewer # 0) =>
        AppliedStyle.style = "stick"

\* an unknown background does not make the surface white
C19_UnknownBackgroundIsWhite ==
    (lastOp.op = "setBackground" /\ viewer # 0
       /\ lastOp.arg \notin { BACKGROUNDS[i].id : i \in 1..Len(BACKGROUNDS) }) =>
        surfaces[viewer].background = "white"

\* the key with every letter in upper case
FoldedKey(eventKey) == [i \in 1..Len(eventKey) |-> Uppercased(eventKey[i])]

\* the table of the shortcuts: the handler of a case-folded key
ShortcutOf(k) ==
    CASE k = << "R" >> -> "onReset"
      [] k = << "S" >> -> "onToggleSpin"
      [] k \in { << "1" >>, << "2" >>, << "3" >>, << "4" >> } -> "onLoadMolecule"
      [] k = << " " >> -> "onScreenshot"
      [] k = << "M" >> -> "onToggleMeasure"
      [] k = << "L" >> -> "onToggleLabels"
      [] k = << "?" >> -> "onToggleHelp"
      [] OTHER -> "none"

\* the catalog entry the keys 1-4 stand for, by position
EntryOfKey(k) ==
    CASE k = << "1" >> -> MOLECULES[1]
      [] k = << "2" >> -> MOLECULES[2]
      [] k = << "3" >> -> MOLECULES[3]
      [] k = << "4" >> -> MOLECULES[4]

\* whether a step called the function fn of the library
CalledFn(cs, fn) == \E i \in 1..Len(cs) : cs[i][2] = fn

\* C20: for a key press whose target is not a text input or textarea the
\* dispatcher invokes exactly the handler the table assigns to the
\* case-folded key (the keys 1-4 load the first to fourth catalog entry) and
\* none for any other key; for a key press in a text input or textarea it
\* invokes none, and then nothing changes.
C20_KeyInvokesItsHandler ==
    [][ lastOp'.op = "keydown" =>
          LET handler ==
                  IF lastOp'.arg.target \in { "input", "textarea" }
                  THEN "none"
                  ELSE ShortcutOf(FoldedKey(lastOp'.arg.key))
          IN /\ lastOp'.ret = handler
             /\ handler = "none" => (calls' = << >> /\ UNCHANGED sessionVars)
             /\ (handler = "onReset" /\ viewer # 0) =>
                    (CalledFn(calls', "zoomTo") /\ ~isSpinning')
             /\ (handler = "onToggleSpin" /\ viewer # 0) =>
                    (isSpinning' = ~isSpinning /\ CalledFn(calls', "spin"))
             /\ (handler = "onLoadMolecule" /\ viewer # 0) =>
                    /\ currentMolecule' = EntryOfKey(FoldedKey(lastOp'.arg.key)).id
                    /\ CalledFn(calls', "clear")
             /\ (handler = "onScreenshot" /\ viewer # 0) =>
                    (CalledFn(calls', "pngURI") /\ CalledFn(calls', "link.click"))
             /\ measureMode' = IF handler = "onToggleMeasure" THEN ~measureMode ELSE measureMode
             /\ showLabels' = IF handler = "onToggleLabels" THEN ~showLabels ELSE showLabels
             /\ showHelpModal' = IF handler = "onToggleHelp" THEN ~showHelpModal ELSE showHelpModal
             /\ handler # "onLoadMolecule" => currentMolecule' = currentMolecule
             /\ handler \notin { "onReset", "onToggleSpin" } => isSpinning' = isSpinning ]_vars

\* C20 witness: Shift+R pressed outside a text field while the structure
\* spins: the reset handler ran and stopped the spin.
C20_Witness ==
    /\ lastOp.op = "keydown"
    /\ lastOp.arg = [key |-> << "R" >>, target |-> "body"]
    /\ lastOp.ret = "onReset"
    /\ viewer # 0
    /\ CalledFn(calls, "spin")
    /\ ~isSpinning

\* the key 3 has loaded the third catalog entry; L in a text field did nothing
C20_LoadKeyWitness ==
    /\ lastOp.op = "keydown"
    /\ lastOp.arg = [key |-> << "3" >>, target |-> "body"]
    /\ currentMolecule = "glucose"
    /\ isLoading

C20_TextFieldWitness ==
    /\ lastOp.op = "keydown"
    /\ lastOp.arg = [key |-> << "l" >>, target |-> "input"]
    /\ lastOp.ret = "none"
    /\ viewer # 0
    /\ ~showLabels

\* C21: an atom click while measure mode is off sets selectedAtom to the
\* clicked atom and changes nothing else: measureMode, the first atom,
\* measurementDistance and the indicator stay as they were and no surface
\* call is made, also after a completed measurement.
C21_IdleClickOnlySelects ==
    [][ (lastOp'.op = "click" /\ ~measureMode) =>
          /\ selectedAtom' = Some(lastOp'.arg)
          /\ calls' = << >>
          /\ UNCHANGED << measureMode, measureAtom1, measurementDistance, surfaces,
                          viewer, pending, isLoading, currentMolecule, customPdbId,
                          searchError, atomCount >> ]_vars

\* C21 witness: after a completed measurement (distance and indicator
\* present, mode off) another atom has been clicked.
C21_Witness ==
    /\ lastOp.op = "click"
    /\ ~measureMode
    /\ ~IsNull(measurementDistance)
    /\ Len(Indicator) = 1
    /\ IsNull(measureAtom1)
    /\ selectedAtom = Some(lastOp.arg)

\* C22: toggleMeasureMode turning the mode on changes only the mode flag;
\* turning it off sets the mode to false and the first atom to null; in both
\* directions distance, selectedAtom and the surface are unchanged and no
\* surface call is made.
C22_ToggleMeasureModeFrame ==
    [][ lastOp'.op = "toggleMeasureMode" =>
          /\ measureMode' = ~measureMode
          /\ measureAtom1' = IF measureMode THEN Null ELSE measureAtom1
          /\ calls' = << >>
          /\ UNCHANGED << measurementDistance, selectedAtom, surfaces, viewer,
                          pending, isLoading, currentMolecule, customPdbId,
                          searchError, atomCount >> ]_vars

\* C22 witness: the mode has been turned off while a first atom was held and
\* the distance of an earlier measurement was shown.
C22_Witness ==
    /\ lastOp.op = "toggleMeasureMode"
    /\ ~measureMode
    /\ IsNull(measureAtom1)
    /\ ~IsNull(selectedAtom)
    /\ ~IsNull(measurementDistance)
    /\ Len(Indicator) = 1

\* the mode has been turned on while a distance was shown
C22_ArmedWitness ==
    /\ lastOp.op = "toggleMeasureMode"
    /\ measureMode
    /\ ~IsNull(measurementDistance)

\* C23 (as claimed): whenever measure mode is on, the measurement card shows
\* the instruction of the current step: 'Click on first atom' when no first
\* atom is held and 'Click on second atom' when one is held.
C23_CardShowsCurrentInstruction ==
    (phase = "mounted" /\ ~comparisonMode /\ measureMode) =>
        MeasurementCard(State) =
            IF IsNull(measureAtom1) THEN "Click on first atom" ELSE "Click on second atom"

\* the part of C23 that holds: with no distance of an earlier measurement
\* left, the card shows the instruction of the current step
C23_CardShowsInstructionWithoutDistance ==
    (phase = "mounted" /\ ~comparisonMode /\ measureMode /\ IsNull(measurementDistance)) =>
        MeasurementCard(State) =
            IF IsNull(measureAtom1) THEN "Click on first atom" ELSE "Click on second atom"

\* C24: the distance of a measurement from A to B is the square root of the
\* sum of the squared coordinate differences; it is the distance from B to A,
\* it is 0 from A to A, and from (0,0,0) to (3,4,0) it is 5 (coordinates and
\* distances in 1/1000 of the unit).
C24_DistanceIsEuclidean ==
    [][ (lastOp'.op = "click" /\ measureMode /\ ~IsNull(measureAtom1)) =>
          LET a == Val(measureAtom1)
              b == lastOp'.arg
              d == Val(measurementDistance')
          IN /\ ~IsNull(measurementDistance')
             /\ IsSqrtOf(d, SquaredDistance(a, b))
             /\ d = calculateDistance(b, a)
             /\ a = b => d = [root |-> 0, rem |-> 0]
             /\ (<< a.x, a.y, a.z >> = << 0, 0, 0 >> /\ << b.x, b.y, b.z >> = << 3000, 4000, 0 >>)
                   => d = [root |-> 5000, rem |-> 0] ]_vars

\* C24 witness: the distance from (0,0,0) to (3,4,0) has been measured.
C24_Witness ==
    /\ lastOp.op = "click"
    /\ ~measureMode
    /\ << lastOp.arg.x, lastOp.arg.y, lastOp.arg.z >> = << 3000, 4000, 0 >>
    /\ Indicator = << [start |-> [x |-> 0, y |-> 0, z |-> 0],
                       end |-> [x |-> 3000, y |-> 4000, z |-> 0]] >>
    /\ measurementDistance = Some([root |-> 5000, rem |-> 0])

\* the structure a catalog entry stands for
StructureOf(moleculeId) ==
    IF moleculeId = "ethanol" THEN ETHANOL_PDB
    ELSE RemoteStructure(Val(getMoleculeById(moleculeId)).pdbId)

\* instance v displays the catalog entry moleculeId: its selector names it
\* and its surface carries that structure and no other
svDisplays(v, moleculeId) ==
    /\ comparison.viewers[v].selectedMoleculeId = moleculeId
    /\ svSelectedAtoms(comparison, v) = StructureOf(moleculeId)

\* the swap last called has run to its end: both viewers settled
SwapCompleted ==
    /\ ~IsNull(comparison.swapped)
    /\ \A v \in ViewerIds : svSettled(comparison, v)

\* C25 (as claimed): after swapMolecules and the loads it triggers, Viewer A
\* displays the molecule Viewer B displayed just before the swap and Viewer B
\* the one Viewer A displayed.
C25_SwapExchangesDisplayed ==
    SwapCompleted =>
        /\ svDisplays("A", Val(comparison.swapped)["B"])
        /\ svDisplays("B", Val(comparison.swapped)["A"])

\* the part of C25 that holds: when each viewer displayed the molecule the
\* parent had given it (no selector of a viewer used since), the swap
\* exchanges what they display
C25_SwapExchangesInitialMolecules ==
    (SwapCompleted
       /\ Val(comparison.swapped)["A"] = comparison.rightMolecule
       /\ Val(comparison.swapped)["B"] = comparison.leftMolecule) =>
        /\ svDisplays("A", Val(comparison.swapped)["B"])
        /\ svDisplays("B", Val(comparison.swapped)["A"])

\* a swap of untouched viewers has completed
C25_InitialSwapReached ==
    /\ SwapCompleted
    /\ Val(comparison.swapped) = [v \in ViewerIds |-> IF v = "A" THEN "caffeine" ELSE "aspirin"]
    /\ svDisplays("A", "aspirin")
    /\ svDisplays("B", "caffeine")

\* ------------------------------------------------------------------ C26

\* C26: in every reachable state, if at least one structure download issued
\* by the session has not yet had its completion callback run, isLoading is
\* true.
C26_LoadingCoversOutstanding ==
    pending # << >> => isLoading

\* C26, the part about the request just issued: a load or a search that
\* issues a download leaves isLoading true.
C26_IssuingSetsLoading ==
    [][Len(pending') > Len(pending) => isLoading']_vars

C26_RequestOutstanding ==
    pending # << >> /\ isLoading

\* ------------------------------------------------------------------ C27

\* whether a preset is the current selection
PresetSelected ==
    IsNull(customPdbId) /\ ~IsNull(getMoleculeById(currentMolecule))

\* C27: whenever the session has a surface, no structure request is
\* outstanding and a preset is the current selection, atomCount is the atom
\* count registered for that preset's database identifier.
C27_AtomCountOfSelectedPreset ==
    (viewer # 0 /\ pending = << >> /\ PresetSelected)
        => atomCount = getAtomCount(Val(getMoleculeById(currentMolecule)).pdbId)

\* C27, the part that holds: the step that shows a preset (the inline load,
\* or the callback of the download of the currently selected preset when no
\* other request was issued since) leaves the registered count.
C27_LoadLeavesRegisteredCount ==
    [][(lastOp'.op = "loadMolecule" /\ lastOp'.arg = "ethanol" /\ viewer # 0)
          => atomCount' = getAtomCount(INLINE)]_vars

C27_SettledOnPreset ==
    /\ viewer # 0 /\ pending = << >> /\ PresetSelected
    /\ lastOp.op = "presetCallback"
    /\ atomCount = getAtomCount(Val(getMoleculeById(currentMolecule)).pdbId)

\* ------------------------------------------------------------------ C28

\* the measurement indicators (cylinders) in the session's surface
Indicators == surfaces[viewer].shapes

\* C28: in every reachable state of a session that has a rendering surface,
\* the surface carries a measurement indicator if and only if
\* measurementDistance is non-null, and it never carries more than one.
C28_IndicatorIffDistance ==
    viewer # 0 =>
        /\ (Len(Indicators) > 0) <=> ~IsNull(measurementDistance)
        /\ Len(Indicators) <= 1

\* a measurement has been completed: the click handler removed the shapes
\* and added a cylinder, and the one indicator ends at the atom clicked
C28_Witness ==
    /\ viewer # 0
    /\ lastOp.op = "click"
    /\ ~IsNull(measurementDistance)
    /\ Len(Indicators) = 1
    /\ << viewer, "removeAllShapes" >> \in { calls[i] : i \in 1..Len(calls) }
    /\ << viewer, "addCylinder" >> \in { calls[i] : i \in 1..Len(calls) }
    /\ Indicators[1].end = Position(lastOp.arg)
    /\ Indicators[1].start # Indicators[1].end

\* a measurement has been cleared: no distance and no indicator
C28_ClearedWitness ==
    /\ viewer # 0
    /\ lastOp.op = "clearMeasurement"
    /\ IsNull(measurementDistance)
    /\ Len(Indicators) = 0
    /\ << viewer, "removeAllShapes" >> \in { calls[i] : i \in 1..Len(calls) }

\* ------------------------------------------------------------------ C29

\* whether the session's surface was last commanded to rotate
SurfaceRotates == surfaces[viewer].spin # "false"

\* C29: in every reachable state of a session that has a rendering surface,
\* isSpinning is true if and only if that surface was last commanded to
\* rotate.
C29_SpinFlagReflectsSurface ==
    viewer # 0 => (isSpinning <=> SurfaceRotates)

\* C29, the part about the two operations: toggleSpin flips the flag and
\* commands the surface accordingly, resetView leaves both stopped.
C29_SpinOperations ==
    [][ /\ (lastOp'.op = "toggleSpin" /\ viewer # 0) =>
              /\ isSpinning' = ~isSpinning
              /\ surfaces'[viewer'].spin = IF isSpinning' THEN spinAxis ELSE "false"
        /\ (lastOp'.op = "resetView" /\ viewer # 0) =>
              /\ ~isSpinning'
              /\ surfaces'[viewer'].spin = "false" ]_vars

C29_SpinningReached ==
    /\ viewer # 0
    /\ lastOp.op = "toggleSpin"
    /\ isSpinning
    /\ surfaces[viewer].spin = spinAxis

\* ------------------------------------------------------------------ C30

\* C30: in every reachable state, when customPdbId is non-null
\* currentMolecule is the empty string, and whenever currentMolecule is a
\* catalog id customPdbId is null.
C30_PresetAndCustomExclusive ==
    /\ ~IsNull(customPdbId) => currentMolecule = ""
    /\ currentMolecule \in MoleculeIds => IsNull(customPdbId)

\* a search has made a custom identifier the selection
C30_Witness ==
    /\ lastOp.op = "searchPDB"
    /\ lastOp.ret = "pending"
    /\ ~IsNull(customPdbId)
    /\ currentMolecule = ""

\* a preset was loaded while the download of a search was outstanding
C30_PresetAfterCustom ==
    /\ lastOp.op = "loadMolecule"
    /\ \E i \in 1..Len(pending) : pending[i].kind = "search"
    /\ currentMolecule \in MoleculeIds
    /\ IsNull(customPdbId)

====
